---- MODULE Spec2Model ----
(***************************************************************************)
(* Model of the task orchestration core of claude-team-mcp:                *)
(*   - Orchestrator (src/src/collaboration/orchestrator.ts): execute and   *)
(*     the parallel / sequential / mixed execution policies;               *)
(*   - FallbackAdapter (src/src/adapters/fallback.ts): retry and fallback  *)
(*     over an ordered chain of adapters.                                  *)
(*                                                                         *)
(* JavaScript runs one macrotask at a time.  An action of the model is one *)
(* macrotask: the settlement of an awaited remote call together with all   *)
(* the synchronous code (and microtask continuations) that runs until the  *)
(* next await of a remote call.                                            *)
(***************************************************************************)
EXTENDS Integers, Sequences, FiniteSets, TLC

(***************************************************************************)
(* Bounds of the model.                                                    *)
(***************************************************************************)
\* largest size of an analysis the planner returns: its number of subtasks
\* plus its number of dependency edges
MaxSize == 5
\* number of execute calls made on the orchestrator in one behaviour
MaxRuns == 2

(***************************************************************************)
(* Small helpers.                                                          *)
(***************************************************************************)
Range(f) == {f[x] : x \in DOMAIN f}

(***************************************************************************)
(* The planner's answer (TaskAnalysis): subtasks, workflow, needsReview.   *)
(* An analysis declares subtasks with the ids A, B, C, ... in that order.  *)
(* A dependency id is the id of a subtask of the                           *)
(* analysis or DanglingId, which names no subtask.  ExpertId is the id of  *)
(* the one expert the analysis declares; GhostExpert is an expert id that  *)
(* the analysis uses in a subtask but never declares.                      *)
(***************************************************************************)
SubtaskIds == <<"A", "B", "C", "D", "E", "F">>
DanglingId == "Z"
ExpertId == "e1"
GhostExpert == "ghost"
Workflows == {"parallel", "sequential", "mixed"}

RECURSIVE ListsOver(_, _)
\* the lists of at most e elements of T, without repeats
ListsOver(T, e) ==
  IF e <= 0 THEN {<<>>}
  ELSE {<<>>} \cup UNION {{<<a>> \o q : q \in ListsOver(T \ {a}, e - 1)} : a \in T}

\* dependency lists of length at most e over the ids of the first n subtasks
\* and DanglingId, without repeats
DepLists(n, e) == ListsOver({SubtaskIds[k] : k \in 1..n} \cup {DanglingId}, e)

RECURSIVE DepTables(_, _, _)
\* sequences of k dependency lists over the ids of n subtasks with at most e edges in all
DepTables(k, n, e) ==
  IF k = 0 THEN {<<>>}
  ELSE UNION {{Append(g, d) : g \in DepTables(k - 1, n, e - Len(d))} : d \in DepLists(n, e)}

\* the largest number of subtasks of an analysis
MaxSubtasks == Len(SubtaskIds)

\* assignments of experts to n subtasks: at most one subtask names the
\* undeclared expert
ExpertAssignments(n) ==
  {[k \in 1..n |-> ExpertId]}
  \cup {[k \in 1..n |-> IF k = g THEN GhostExpert ELSE ExpertId] : g \in 1..n}

\* the subtask lists the planner may return
SubtaskLists ==
  UNION {{[k \in 1..n |-> [id |-> SubtaskIds[k], expertId |-> ex[k], dependencies |-> g[k]]] :
            g \in DepTables(n, n, MaxSize - n), ex \in ExpertAssignments(n)} :
         n \in 0..(IF MaxSize < MaxSubtasks THEN MaxSize ELSE MaxSubtasks)}

\* the summaries the summarize call may return (the empty string is falsy)
Summaries == {"", "summary"}

(***************************************************************************)
(* State of one Orchestrator and of the execute calls made on it.          *)
(***************************************************************************)
VARIABLES
  pc,           \* where execute is suspended: idle, analyze, batch, seq,
                \* review, summarize, done (returned), aborted (rejected)
  run,          \* number of execute calls made so far
  cache,        \* the TaskCache: its configuration and its Map of entries
  subtasks,     \* analysis.subtasks of the current call
  workflow,     \* analysis.workflow
  needsReview,  \* analysis.needsReview
  reply,        \* the planner's reply the analysis was parsed from
  reviewer,     \* history: the tier of the review expert and the outputs it was given
  experts,      \* keys of the experts map
  calls,        \* per subtask: state of its expert.execute call
  context,      \* per subtask: the space context handed to its call
  conversationHistory, \* Expert.conversationHistory of the expert the subtasks
                \* are assigned to: the arrays made by its execute calls and
                \* the one the field refers to
  completed,    \* the set `completed` of executeSequential / executeMixed
  pending,      \* the list `pending` of executeMixed (subtask positions)
  batch,        \* the subtasks handed to the executeParallel being awaited
  sortedTasks,  \* the list `sortedTasks` of executeSequential
  pos,          \* the loop index i of executeSequential (1-based)
  outputs,      \* the list `outputs`
  space,        \* CollaborationSpace.messages, each tagged with its run
  progress,     \* notifications delivered to onProgress
  stale,        \* calls of earlier execute calls that are still in flight
  result,       \* the TeamResult returned by the current call, once it returned
  error,        \* what the current call rejected with: none, or the call that failed
  startedAfter, \* history: per subtask, the calls completed when its call began
  dispatched,   \* history: per subtask, number of expert.execute calls
  waves,        \* history: the subtask lists handed to executeParallel, each with
                \* the `completed` and `pending` of the caller at that moment
  halted,       \* history: executeMixed left its loop by the cycle branch
  analyzeCalls, \* history: number of lead.analyze calls, all runs
  reviewCalls,  \* history: number of review calls of the current run
  summaryCalls  \* history: number of lead.summarize calls of the current run

(***************************************************************************)
(* State of one FallbackAdapter and of the chat calls made on it.          *)
(***************************************************************************)
VARIABLES
  maxRetries,    \* config.maxRetries
  fallbacks,     \* number of fallback adapters
  maxRetryDelay, \* config.maxRetryDelay
  observer,      \* whether config.onProgress is defined
  cpc,           \* where chat is suspended: idle, attempt (adapter.chat),
                 \* sleep, returned, thrown
  ci,            \* the loop index i of chat, 1-based: 1 is the primary
  retry,         \* the loop index retry of chat
  lastError,     \* the local lastError of chat
  delay,         \* the delay of the sleep in progress (0: none)
  chats,         \* number of chat calls made so far
  value,         \* what chat returned: the index of the adapter that answered
  thrown,        \* the message the terminal error carries ("": none thrown)
  notes,         \* per kind, the notifications passed to onProgress in this call
  attemptsOn,    \* history: per adapter, the adapter.chat calls of this call
  failuresOn,    \* history: per adapter, what it threw in this call: NoError, the
                 \* one error all its failures were, or MixedErrors
  sleepsOn,      \* history: per adapter, the sleeps of this call
  previous       \* history: how the previous chat call ended, and by whom answered

chatVars == <<maxRetries, fallbacks, maxRetryDelay, observer, cpc, ci, retry, lastError,
              delay, chats, value, thrown, notes, attemptsOn, failuresOn, sleepsOn,
              previous>>

\* the state of an Orchestrator apart from its TaskCache
orchLocals == <<pc, run, subtasks, workflow, needsReview, reply, reviewer, experts, calls, context,
          conversationHistory, completed, pending, batch, sortedTasks, pos, outputs, space, progress,
          stale, result, error, startedAfter, dispatched, waves, halted, analyzeCalls,
          reviewCalls, summaryCalls>>

orchVars == <<cache, orchLocals>>

(***************************************************************************)
(* TaskCache.  A text is a sequence of characters; the characters modelled *)
(* are an upper-case letter, its lower-case form, the space and the        *)
(* separator of normalizeTask.  The Map of entries is the sequence of its  *)
(* entries in insertion order; the field `task` of an entry, which is      *)
(* never read, is left out.                                                *)
(***************************************************************************)
VARIABLES
  now,      \* Date.now(), from an origin of 0
  ops,      \* history: number of cache operations and clock advances so far
  lastOp    \* history: the last operation on the cache, its input and what it returned

cacheVars == <<now, ops, lastOp>>

\* defaults of the constructor
DefaultMaxSize == 100
DefaultTtl == 1800000

\* the parameter `context` when it is not passed
Absent == <<"undefined">>
\* the value null returned by get
Null == "null"

LowerCase(ch) == IF ch = "A" THEN "a" ELSE ch
\* String.prototype.toLowerCase
ToLowerCase(text) == [i \in DOMAIN text |-> LowerCase(text[i])]

RECURSIVE TrimStart(_)
TrimStart(text) ==
  IF text # <<>> /\ Head(text) = " " THEN TrimStart(Tail(text)) ELSE text

RECURSIVE TrimEnd(_)
TrimEnd(text) ==
  IF text # <<>> /\ text[Len(text)] = " "
  THEN TrimEnd(SubSeq(text, 1, Len(text) - 1)) ELSE text

\* String.prototype.trim
Trim(text) == TrimEnd(TrimStart(text))

RECURSIVE CollapseSpaces(_)
\* replace(/\s+/g, ' ')
CollapseSpaces(text) ==
  IF Len(text) < 2 THEN text
  ELSE IF text[1] = " " /\ text[2] = " " THEN CollapseSpaces(Tail(text))
  ELSE <<text[1]>> \o CollapseSpaces(Tail(text))

NormalizeText(text) == CollapseSpaces(Trim(ToLowerCase(text)))

\* TaskCache.normalizeTask: `context ? ... : ''` takes an absent and an empty
\* context alike
NormalizeTask(task, ctx) ==
  NormalizeText(task) \o <<"|">>
    \o (IF ctx # Absent /\ ctx # <<>> THEN NormalizeText(ctx) ELSE <<>>)

\* the MD5 digest of a text: one digest per text
Md5(text) == [md5 |-> text]

\* TaskCache.generateKey
GenerateKey(task, ctx) == Md5(NormalizeTask(task, ctx))

\* new TaskCache(config)
NewTaskCache(maxSize, ttl, enabled) ==
  [maxSize |-> maxSize, ttl |-> ttl, enabled |-> enabled, entries |-> <<>>]

\* Map.has / Map.get: the position of the entry of a key, 0 when it has none
KeyIndex(entries, key) ==
  IF \E i \in DOMAIN entries : entries[i].key = key
  THEN CHOOSE i \in DOMAIN entries : entries[i].key = key
  ELSE 0

\* Date.now() - entry.createdAt > this.ttl
Expired(entry, t, ttl) == t - entry.createdAt > ttl

\* Map.delete
DeleteKey(entries, key) ==
  LET Other(e) == e.key # key IN SelectSeq(entries, Other)

\* TaskCache.get that leaves an expired entry where it is
CacheGetNoPurge(c, key, t) ==
  IF ~c.enabled THEN [cache |-> c, value |-> Null]
  ELSE LET i == KeyIndex(c.entries, key)
       IN  IF i = 0 \/ Expired(c.entries[i], t, c.ttl) THEN [cache |-> c, value |-> Null]
           ELSE [cache |-> [c EXCEPT !.entries[i].hits = @ + 1],
                 value |-> c.entries[i].result]

\* TaskCache.get at time t: the cache afterwards and the value returned
CacheGet(c, key, t) ==
  IF ~c.enabled THEN [cache |-> c, value |-> Null]
  ELSE LET i == KeyIndex(c.entries, key)
       IN  IF i = 0 THEN [cache |-> c, value |-> Null]
           ELSE IF Expired(c.entries[i], t, c.ttl)
           THEN [cache |-> [c EXCEPT !.entries = DeleteKey(@, key)], value |-> Null]
           ELSE [cache |-> [c EXCEPT !.entries[i].hits = @ + 1],
                 value |-> c.entries[i].result]

\* Math.ceil(this.maxSize * 0.2)
DeleteCount(maxSize) == (maxSize + 4) \div 5

\* the position of entry i when the sort puts the most used entries first
SortRankDescending(entries, i) ==
  Cardinality({j \in DOMAIN entries :
                 \/ entries[j].hits > entries[i].hits
                 \/ (entries[j].hits = entries[i].hits /\ j < i)})

\* the position of entry i in Array.from(entries).sort((a, b) => a.hits - b.hits),
\* counted from 0: the sort is stable
SortRank(entries, i) ==
  Cardinality({j \in DOMAIN entries :
                 \/ entries[j].hits < entries[i].hits
                 \/ (entries[j].hits = entries[i].hits /\ j < i)})

\* TaskCache.evict at time t
Evict(c, t) ==
  LET Live(e) == ~Expired(e, t, c.ttl)
      live == SelectSeq(c.entries, Live)
      Kept(e) == SortRank(live, KeyIndex(live, e.key)) >= DeleteCount(c.maxSize)
  IN  IF Len(live) >= c.maxSize
      THEN [c EXCEPT !.entries = SelectSeq(live, Kept)]
      ELSE [c EXCEPT !.entries = live]

\* TaskCache.set at time t
CacheSet(c, key, res, t) ==
  IF ~c.enabled THEN c
  ELSE LET c1 == IF Len(c.entries) >= c.maxSize THEN Evict(c, t) ELSE c
           entry == [key |-> key, result |-> res, createdAt |-> t, hits |-> 0]
           i == KeyIndex(c1.entries, key)
       IN  [c1 EXCEPT !.entries = IF i = 0 THEN Append(@, entry)
                                   ELSE [@ EXCEPT ![i] = entry]]

\* the task and the context the callers of execute pass
OrchTask == <<"A", " ", "A">>
OrchContext == <<>>
OrchKey == GenerateKey(OrchTask, OrchContext)

\* no cache operation made yet
NoOp ==
  [kind |-> "none", task |-> <<>>, ctx |-> Absent, result |-> Null, value |-> Null,
   before |-> 0, expired |-> 0]

\* how many entries of cache c have outlived the TTL at time t
ExpiredCount(c, t) ==
  Cardinality({i \in DOMAIN c.entries : Expired(c.entries[i], t, c.ttl)})

\* the clock at its origin, no operation made
CacheUnused == now = 0 /\ ops = 0 /\ lastOp = NoOp

(***************************************************************************)
(* ResumableTaskManager: the ledger, one JSON file per task id in tasksDir. *)
(***************************************************************************)
VARIABLES
  files,        \* tasksDir: the content of <id>.json for every task id
  ledgerOp      \* the last ledger operation: its arguments, the status of the
                \* record before it and the value it returned

ledgerVars == <<files, ledgerOp>>

\* largest number of ledger operations and clock advances in one behaviour
MaxLedgerOps == 4

\* Math.random().toString(36).slice(2, 6), by its value: strings of base-36
\* digits of one length are ordered as their values are
Suffixes == {0, 1}

\* the clock is Date.now() in milliseconds
SecondMs == 1000

\* generateId at time t with random suffix r: `task-<date>-<time>-<random>`,
\* date and time to the second; modelled by the pair <<second, suffix>>
GenerateId(t, r) == <<t \div SecondMs, r>>

\* an id of the right form that no create call has returned
UnknownId == <<0, -1>>

\* the ids the operations are called with: those generateId can return
\* within one behaviour, and the unknown one
TaskIds == {GenerateId(k * SecondMs, r) : k \in 0..MaxLedgerOps, r \in Suffixes} \cup {UnknownId}

\* the order of the file names `<id>.json` (lexical)
IdLess(a, b) == a[1] < b[1] \/ (a[1] = b[1] /\ a[2] < b[2])

\* existsSync(filePath) is false
NoFile == [exists |-> FALSE]

\* the value undefined of an optional property or argument
Undefined == [undefined |-> TRUE]

\* a file holding only a part of the text writeFileSync was writing: no
\* proper prefix of the text of a JSON object parses
Torn == [torn |-> TRUE]

\* the absence signal of the manager's operations
NullTask == [null |-> TRUE]

\* no ledger operation made yet
NoLedgerOp ==
  [kind |-> "none", id |-> UnknownId, reason |-> Undefined, sub |-> Undefined,
   was |-> "absent", value |-> NullTask]

\* an empty tasksDir, nothing called yet
LedgerUnused == files = [id \in TaskIds |-> NoFile] /\ ledgerOp = NoLedgerOp

\* the state as one record, so that synchronous code composes as functions
Cur ==
  [pc |-> pc, run |-> run, cache |-> cache, subtasks |-> subtasks,
   workflow |-> workflow, needsReview |-> needsReview, reply |-> reply,
   reviewer |-> reviewer, experts |-> experts, calls |-> calls, context |-> context,
   conversationHistory |-> conversationHistory, completed |-> completed,
   pending |-> pending, batch |-> batch, sortedTasks |-> sortedTasks, pos |-> pos,
   outputs |-> outputs, space |-> space, progress |-> progress, stale |-> stale,
   result |-> result, error |-> error, startedAfter |-> startedAfter, dispatched |-> dispatched,
   waves |-> waves, halted |-> halted, analyzeCalls |-> analyzeCalls,
   reviewCalls |-> reviewCalls, summaryCalls |-> summaryCalls]

Become(s) ==
  /\ pc' = s.pc /\ run' = s.run /\ cache' = s.cache /\ subtasks' = s.subtasks
  /\ workflow' = s.workflow /\ needsReview' = s.needsReview /\ experts' = s.experts
  /\ reply' = s.reply /\ reviewer' = s.reviewer
  /\ calls' = s.calls /\ context' = s.context /\ completed' = s.completed
  /\ conversationHistory' = s.conversationHistory
  /\ pending' = s.pending /\ batch' = s.batch /\ sortedTasks' = s.sortedTasks
  /\ pos' = s.pos /\ outputs' = s.outputs /\ space' = s.space
  /\ progress' = s.progress /\ stale' = s.stale /\ result' = s.result
  /\ error' = s.error
  /\ startedAfter' = s.startedAfter /\ dispatched' = s.dispatched
  /\ waves' = s.waves /\ halted' = s.halted /\ analyzeCalls' = s.analyzeCalls
  /\ reviewCalls' = s.reviewCalls /\ summaryCalls' = s.summaryCalls
  /\ UNCHANGED <<chatVars, cacheVars, ledgerVars>>

\* no reply received from the planner in the current call
NoReply == [text |-> <<>>, json |-> [none |-> TRUE]]

\* performReview not called in the current call
NoReviewer == [tier |-> "none", given |-> <<>>]

\* `private conversationHistory: ChatMessage[] = []` of a new Expert; array 0
\* is the one of the constructor, array k the one made for the subtask at
\* position k
NoHistory == [current |-> 0, arrays |-> <<>>]

NoResult == [success |-> FALSE, summary |-> "", outputs |-> <<>>, conversation |-> <<>>]

\* the locals of an execute call before its analysis has arrived
FreshLocals(s) ==
  [s EXCEPT !.subtasks = <<>>, !.workflow = "none", !.needsReview = FALSE,
            !.reply = NoReply, !.reviewer = NoReviewer, !.experts = {}, !.calls = <<>>, !.context = <<>>,
            !.conversationHistory = NoHistory, !.completed = {},
            !.pending = <<>>, !.batch = <<>>, !.sortedTasks = <<>>, !.pos = 0,
            !.outputs = <<>>, !.progress = <<>>, !.startedAfter = <<>>,
            !.dispatched = <<>>, !.waves = <<>>, !.halted = FALSE,
            !.reviewCalls = 0, !.summaryCalls = 0]

\* the state after `new Orchestrator(config)`: nothing cached, empty space
InitState ==
  [pc |-> "idle", run |-> 0,
   cache |-> NewTaskCache(DefaultMaxSize, DefaultTtl, TRUE), subtasks |-> <<>>,
   workflow |-> "none", needsReview |-> FALSE, reply |-> NoReply, reviewer |-> NoReviewer,
   experts |-> {}, calls |-> <<>>,
   context |-> <<>>, conversationHistory |-> NoHistory,
   completed |-> {}, pending |-> <<>>, batch |-> <<>>,
   sortedTasks |-> <<>>, pos |-> 0, outputs |-> <<>>, space |-> <<>>,
   progress |-> <<>>, stale |-> {}, result |-> NoResult, error |-> "none",
   startedAfter |-> <<>>,
   dispatched |-> <<>>, waves |-> <<>>, halted |-> FALSE, analyzeCalls |-> 0,
   reviewCalls |-> 0, summaryCalls |-> 0]

\* the fields of a new Orchestrator(config) apart from its TaskCache
OrchLocalsConstructed ==
  /\ pc = InitState.pc /\ run = InitState.run
  /\ subtasks = InitState.subtasks /\ workflow = InitState.workflow /\ needsReview = InitState.needsReview
  /\ experts = InitState.experts /\ calls = InitState.calls /\ context = InitState.context
  /\ reply = InitState.reply /\ reviewer = InitState.reviewer
  /\ conversationHistory = InitState.conversationHistory
  /\ completed = InitState.completed /\ pending = InitState.pending /\ batch = InitState.batch
  /\ sortedTasks = InitState.sortedTasks /\ pos = InitState.pos /\ outputs = InitState.outputs
  /\ space = InitState.space /\ progress = InitState.progress /\ stale = InitState.stale
  /\ error = InitState.error
  /\ result = InitState.result /\ startedAfter = InitState.startedAfter /\ dispatched = InitState.dispatched
  /\ waves = InitState.waves /\ halted = InitState.halted /\ analyzeCalls = InitState.analyzeCalls
  /\ reviewCalls = InitState.reviewCalls /\ summaryCalls = InitState.summaryCalls

(***************************************************************************)
(* Synchronous code of the Orchestrator, as functions on the state record. *)
(***************************************************************************)
\* CollaborationSpace.publish
Publish(s, from, type) ==
  [s EXCEPT !.space = Append(@, [run |-> s.run, from |-> from, type |-> type])]

\* Orchestrator.reportProgress; pct = -1 when no percentage is passed
ReportProgress(s, kind, pct) ==
  [s EXCEPT !.progress = Append(@, [run |-> s.run, kind |-> kind, pct |-> pct])]

\* reportProgress of the start or the end of the call of the subtask at
\* position k (the message names the expert, no percentage is passed)
ReportSubtask(s, kind, k) ==
  [s EXCEPT !.progress = Append(@, [run |-> s.run, kind |-> kind, pct |-> -1, task |-> k])]

\* the ExpertOutput of the subtask at position k
OutputOf(s, k) == [expertId |-> s.subtasks[k].expertId, task |-> k]

\* the positions of the subtasks whose call has completed
CompletedCalls(s) == {k \in DOMAIN s.calls : s.calls[k] = "ok"}

\* the messages Expert.execute builds for the subtask at position k: the
\* system prompt and the user message of the task
OwnMessages(k) == <<[role |-> "system", task |-> k], [role |-> "user", task |-> k]>>

\* this.conversationHistory.push({ role: 'assistant', content: response }) of
\* the call of the subtask at position k: the push goes to the array the
\* field refers to now
PushReply(s, k) ==
  [s EXCEPT !.conversationHistory.arrays[s.conversationHistory.current] =
              Append(@, [role |-> "assistant", task |-> k])]

\* expert.execute(subtask.description, this.space.buildContext(...)) is called
\* for the subtask at position k: the call is in flight from here on
StartCall(s, k) ==
  [s EXCEPT !.calls[k] = "inflight",
            !.context[k] = s.space,
            !.conversationHistory = [current |-> k,
                                     arrays |-> [@.arrays EXCEPT ![k] = OwnMessages(k)]],
            !.dispatched[k] = @ + 1,
            !.startedAfter[k] = CompletedCalls(s)]

RECURSIVE LaunchAll(_, _, _)
\* LaunchAll without the `if (!expert)` test
LaunchAllUnchecked(s, list, k) ==
  IF k > Len(list) THEN s
  ELSE LaunchAll(StartCall(ReportSubtask(s, "subtaskStart", list[k]), list[k]), list, k + 1)

\* LaunchAll that leaves the subtasks with declared prerequisites undispatched
LaunchAllWithoutDependents(s, list, k) ==
  IF k > Len(list) THEN s
  ELSE IF s.subtasks[list[k]].expertId \notin s.experts
       THEN LaunchAll(Publish(s, "system", "info"), list, k + 1)
       ELSE IF s.subtasks[list[k]].dependencies # <<>>
            THEN LaunchAll(s, list, k + 1)
            ELSE LaunchAll(StartCall(ReportSubtask(s, "subtaskStart", list[k]), list[k]),
                           list, k + 1)

\* the subtasks.map(async ...) of executeParallel: each callback runs up to
\* its first await, in list order
LaunchAll(s, list, k) ==
  IF k > Len(list) THEN s
  ELSE IF s.subtasks[list[k]].expertId \notin s.experts
       THEN LaunchAll(Publish(s, "system", "info"), list, k + 1)
       ELSE LaunchAll(StartCall(ReportSubtask(s, "subtaskStart", list[k]), list[k]),
                      list, k + 1)

\* the positions of list whose expert exists, in list order
WithExpert(s, list) ==
  LET Has(k) == s.subtasks[k].expertId \in s.experts IN SelectSeq(list, Has)

\* executeParallel up to `await Promise.all(tasks)`
ExecuteParallel(s, list) ==
  LaunchAll([s EXCEPT !.batch = list, !.pc = "batch",
                      !.waves = Append(@, [tasks |-> list, completed |-> s.completed,
                                           pending |-> s.pending])],
            list, 1)

\* results.filter(r => r !== null) once Promise.all has fulfilled
BatchOutputs(s) == [j \in 1..Len(WithExpert(s, s.batch)) |-> OutputOf(s, WithExpert(s, s.batch)[j])]

\* Promise.all(tasks) fulfils when every callback has returned
BatchFulfilled(s) == \A j \in 1..Len(s.batch) :
  s.subtasks[s.batch[j]].expertId \in s.experts => s.calls[s.batch[j]] = "ok"

\* Summarize reporting a percentage below the one reported before
SummarizeEarlyPercent(s) ==
  [ReportProgress(s, "summarize", 70) EXCEPT !.summaryCalls = @ + 1, !.pc = "summarize"]

\* Summarize that stores the outputs in the cache before the summary call
SummarizeCachingFirst(s) ==
  [ReportProgress(s, "summarize", 90)
     EXCEPT !.summaryCalls = @ + 1, !.pc = "summarize",
            !.cache = CacheSet(@, OrchKey, "summary", now)]

\* lead.summarize(...) is called
Summarize(s) ==
  [ReportProgress(s, "summarize", 90) EXCEPT !.summaryCalls = @ + 1, !.pc = "summarize"]

\* AfterSubtasks that reviews whenever the analysis asks for it, whether or
\* not there are outputs
AfterSubtasksReviewingNothing(s) ==
  LET s1 == ReportProgress(s, "executed", 80)
  IN  IF s1.needsReview
      THEN [ReportProgress(s1, "reviewStart", 85)
              EXCEPT !.reviewCalls = @ + 1, !.pc = "review",
                     !.reviewer = [tier |-> "balanced", given |-> s1.outputs]]
      ELSE Summarize(s1)

\* execute from the return of executeWithExperts to its next await: with
\* needsReview and outputs, performReview creates the review expert on
\* getAdapterByTier('balanced') and calls its review with all the outputs
AfterSubtasks(s) ==
  LET s1 == ReportProgress(s, "executed", 80)
  IN  IF s1.needsReview /\ Len(s1.outputs) > 0
      THEN [ReportProgress(s1, "reviewStart", 85)
              EXCEPT !.reviewCalls = @ + 1, !.pc = "review",
                     !.reviewer = [tier |-> "balanced", given |-> s1.outputs]]
      ELSE Summarize(s1)

\* taskMap.has(id) and taskMap.get(id), as a position in the subtask list
HasTask(tasks, id) == \E k \in 1..Len(tasks) : tasks[k].id = id
TaskMap(tasks, id) == CHOOSE k \in 1..Len(tasks) : tasks[k].id = id

RECURSIVE Visit(_, _, _), VisitDeps(_, _, _, _)
\* the closure `visit` of topologicalSort; st = [sorted, visited]
Visit(tasks, k, st) ==
  IF tasks[k].id \in st.visited THEN st
  ELSE LET st1 == [st EXCEPT !.visited = @ \cup {tasks[k].id}]
           st2 == VisitDeps(tasks, tasks[k].dependencies, 1, st1)
       IN  [st2 EXCEPT !.sorted = Append(@, k)]

\* the loop over task.dependencies inside visit
VisitDeps(tasks, deps, j, st) ==
  IF j > Len(deps) THEN st
  ELSE VisitDeps(tasks, deps, j + 1,
                 IF HasTask(tasks, deps[j]) THEN Visit(tasks, TaskMap(tasks, deps[j]), st)
                 ELSE st)

RECURSIVE VisitFrom(_, _, _)
VisitFrom(tasks, k, st) ==
  IF k > Len(tasks) THEN st ELSE VisitFrom(tasks, k + 1, Visit(tasks, k, st))

\* topologicalSort returning the declaration order
TopologicalSortDeclared(tasks) == [k \in 1..Len(tasks) |-> k]

\* Orchestrator.topologicalSort: the positions of the subtasks in sorted order
TopologicalSort(tasks) == VisitFrom(tasks, 1, [sorted |-> <<>>, visited |-> {}]).sorted

\* a dependency test that accepts every subtask
DepsCompletedUnchecked(s, k) == TRUE

\* subtask.dependencies.every(dep => completed.has(dep))
DepsCompleted(s, k) ==
  \A j \in 1..Len(s.subtasks[k].dependencies) : s.subtasks[k].dependencies[j] \in s.completed

RECURSIVE ExecuteSequentialLoop(_, _)
\* the for loop of executeSequential from index i up to its next await
ExecuteSequentialLoop(s, i) ==
  IF i > Len(s.sortedTasks) THEN AfterSubtasks([s EXCEPT !.pos = i])
  ELSE LET k == s.sortedTasks[i]
       IN  IF ~DepsCompleted(s, k)
           THEN ExecuteSequentialLoop(Publish(s, "system", "info"), i + 1)
           ELSE IF s.subtasks[k].expertId \notin s.experts
                THEN ExecuteSequentialLoop(Publish(s, "system", "info"), i + 1)
                ELSE [StartCall(ReportSubtask(s, "subtaskStart", k), k)
                        EXCEPT !.pos = i, !.pc = "seq"]

\* MarkWave with pending.splice(idx) in place of pending.splice(idx, 1): the
\* whole tail of pending goes with the first task of the wave found in it
MarkWaveSpliceTail(s) ==
  LET InBatch(k) == \E j \in 1..Len(s.batch) : s.subtasks[s.batch[j]].id = s.subtasks[k].id
      hits == {i \in 1..Len(s.pending) : InBatch(s.pending[i])}
      cut == IF hits = {} THEN Len(s.pending)
             ELSE (CHOOSE i \in hits : \A h \in hits : i <= h) - 1
  IN  [s EXCEPT !.outputs = @ \o BatchOutputs(s),
                !.completed = @ \cup {s.subtasks[s.batch[j]].id : j \in 1..Len(s.batch)},
                !.pending = SubSeq(s.pending, 1, cut)]

\* the `for (const task of ready)` of executeMixed, after outputs.push(...)
MarkWave(s) ==
  LET InBatch(k) == \E j \in 1..Len(s.batch) : s.subtasks[s.batch[j]].id = s.subtasks[k].id
      Left(k) == ~InBatch(k)
  IN  [s EXCEPT !.outputs = @ \o BatchOutputs(s),
                !.completed = @ \cup {s.subtasks[s.batch[j]].id : j \in 1..Len(s.batch)},
                !.pending = SelectSeq(s.pending, Left)]

RECURSIVE ExecuteMixedLoop(_)
\* executeMixed throwing on a cycle instead of leaving the loop
ExecuteMixedLoopThrow(s) ==
  IF Len(s.pending) = 0 THEN AfterSubtasks(s)
  ELSE LET IsReady(k) == DepsCompleted(s, k)
           ready == SelectSeq(s.pending, IsReady)
       IN  IF Len(ready) = 0
           THEN [Publish(s, "system", "info") EXCEPT !.halted = TRUE, !.pc = "aborted",
                                                     !.error = "cycle"]
           ELSE LET s1 == ExecuteParallel(s, ready)
                IN  IF BatchFulfilled(s1) THEN ExecuteMixedLoop(MarkWave(s1)) ELSE s1

\* the while loop of executeMixed from its condition up to its next await
ExecuteMixedLoop(s) ==
  IF Len(s.pending) = 0 THEN AfterSubtasks(s)
  ELSE LET IsReady(k) == DepsCompleted(s, k)
           ready == SelectSeq(s.pending, IsReady)
       IN  IF Len(ready) = 0
           THEN AfterSubtasks([Publish(s, "system", "info") EXCEPT !.halted = TRUE])
           ELSE LET s1 == ExecuteParallel(s, ready)
                IN  IF BatchFulfilled(s1) THEN ExecuteMixedLoop(MarkWave(s1)) ELSE s1

\* what runs when the awaited Promise.all of the batch fulfils
BatchJoin(s) ==
  IF s.workflow = "parallel"
  THEN AfterSubtasks([s EXCEPT !.outputs = BatchOutputs(s)])
  ELSE ExecuteMixedLoop(MarkWave(s))

\* executeWithExperts up to its first await
ExecuteWithExperts(s) ==
  LET all == [k \in 1..Len(s.subtasks) |-> k]
  IN  CASE s.workflow = "parallel" ->
             LET s1 == ExecuteParallel(s, all)
             IN  IF BatchFulfilled(s1) THEN BatchJoin(s1) ELSE s1
        [] s.workflow = "sequential" ->
             ExecuteSequentialLoop([s EXCEPT !.sortedTasks = TopologicalSort(s.subtasks)], 1)
        [] OTHER ->
             ExecuteMixedLoop([s EXCEPT !.pending = all])

(***************************************************************************)
(* Actions of the Orchestrator: one per macrotask.                         *)
(***************************************************************************)
\* the calls of the current execute call that are still in flight
InFlight == {k \in DOMAIN calls : calls[k] = "inflight"}

\* a caller invokes execute(task, context) after the previous call is over;
\* the locals of the previous call are dead, its in-flight calls live on
Entered ==
  [FreshLocals(Cur) EXCEPT !.run = run + 1, !.result = NoResult, !.error = "none",
                           !.stale = stale \cup {[run |-> run, task |-> k] : k \in InFlight}]

\* this.cache.get(task, context) at the entry of execute
CachedResult == CacheGet(cache, OrchKey, now)

\* execute, cache hit: `if (cachedResult)` holds for a non-empty string
ExecuteCached ==
  /\ pc \in {"idle", "done", "aborted"}
  /\ run < MaxRuns
  /\ CachedResult.value \notin {Null, ""}
  /\ Become([ReportProgress(Entered, "cacheHit", 100)
               EXCEPT !.pc = "done",
                      !.cache = CachedResult.cache,
                      !.result = [success |-> TRUE, summary |-> CachedResult.value,
                                  outputs |-> <<>>, conversation |-> <<>>]])

\* execute, cache miss: up to `await this.lead.analyze(task, context)`
ExecuteMiss ==
  /\ pc \in {"idle", "done", "aborted"}
  /\ run < MaxRuns
  /\ CachedResult.value \in {Null, ""}
  /\ LET s1 == ReportProgress([Entered EXCEPT !.cache = CachedResult.cache], "taskType", 5)
         s2 == Publish([s1 EXCEPT !.space = <<>>], "system", "info")
         s3 == ReportProgress(s2, "analysisStart", 10)
     IN  Become([s3 EXCEPT !.analyzeCalls = @ + 1, !.pc = "analyze"])

\* lead.analyze fulfils with an analysis: experts are created and the
\* subtasks are started under the analysis' workflow
AnalyzedFrom(list, wf, nr, ids, response) ==
     LET n  == Len(list)
         s1 == Publish(Publish(Cur, "tech-lead", "info"), "tech-lead", "info")
         s2 == ReportProgress(s1, "analysisDone", 20)
         s3 == Publish(ReportProgress(s2, "expertCreated", -1), "system", "info")
         s4 == [ReportProgress(s3, "executeStart", 30)
                  EXCEPT !.subtasks = list, !.workflow = wf, !.needsReview = nr,
                         !.reply = response, !.experts = ids,
                         !.calls = [k \in 1..n |-> "none"],
                         !.context = [k \in 1..n |-> <<>>],
                         !.conversationHistory = [current |-> 0,
                                                  arrays |-> [k \in 1..n |-> <<>>]],
                         !.dispatched = [k \in 1..n |-> 0],
                         !.startedAfter = [k \in 1..n |-> {}]]
     IN  Become(ExecuteWithExperts(s4))

\* a reply that is the JSON text of an analysis, without anything around it
WellFormedReply == [text |-> <<"{", "}">>, json |-> [analysis |-> TRUE]]

\* the same when the reply was the JSON text of an analysis with one expert
Analyzed(list, wf, nr) == AnalyzedFrom(list, wf, nr, {ExpertId}, WellFormedReply)

AnalyzeOk ==
  /\ pc = "analyze"
  /\ \E list \in SubtaskLists, wf \in Workflows, nr \in BOOLEAN : Analyzed(list, wf, nr)

\* the plans without dependencies: nothing to do, one subtask, two subtasks
BriefLists ==
  {[k \in 1..n |-> [id |-> SubtaskIds[k], expertId |-> ExpertId, dependencies |-> <<>>]] :
     n \in 0..2}

\* lead.analyze fulfils with a plan without dependencies, run in parallel
AnalyzeBrief ==
  /\ pc = "analyze"
  /\ \E list \in BriefLists, nr \in BOOLEAN : Analyzed(list, "parallel", nr)

\* JSON values by what Array.isArray sees in them
JsonArray(list) == [array |-> list]
JsonScalar == [scalar |-> TRUE]
IsArray(obj, f) == f \in DOMAIN obj /\ "array" \in DOMAIN obj[f]

\* what response.match(/\{[\s\S]*\}/) and JSON.parse make of a reply: no
\* match, a text JSON.parse throws on, or the object parsed
NoJson == [none |-> TRUE]
InvalidJson == [invalid |-> TRUE]

\* the texts of the replies
ProseText == <<"o", "k">>
BrokenText == <<"{", "o", "k", "}">>
JsonText == <<"{", "}">>

\* the replies of the planner: prose, braces around something that is not
\* JSON, objects whose experts or subtasks are not arrays or are missing,
\* and an analysis of one subtask that leaves workflow and needsReview out
OneSubtask == <<[id |-> "A", expertId |-> ExpertId, dependencies |-> <<>>]>>
UnparsableReplies ==
  { [text |-> ProseText, json |-> NoJson],
    [text |-> BrokenText, json |-> InvalidJson],
    [text |-> JsonText,
     json |-> [object |-> [experts |-> JsonScalar, subtasks |-> JsonArray(OneSubtask)]]],
    [text |-> JsonText,
     json |-> [object |-> [experts |-> JsonArray(<<[id |-> ExpertId]>>), subtasks |-> JsonScalar]]],
    [text |-> JsonText, json |-> [object |-> [summary |-> "s"]]] }
PlannerReplies ==
  UnparsableReplies
    \cup { [text |-> JsonText,
            json |-> [object |-> [experts |-> JsonArray(<<[id |-> ExpertId]>>),
                                  subtasks |-> JsonArray(OneSubtask)]]] }

\* TechLead.createFallbackAnalysis(response)
CreateFallbackAnalysis(response) ==
  [experts |-> <<[id |-> "fallback-expert", tier |-> "balanced"]>>,
   subtasks |-> <<[id |-> "task-1", description |-> response,
                   expertId |-> "fallback-expert", dependencies |-> <<>>]>>,
   workflow |-> "sequential", needsReview |-> FALSE]

\* TechLead.parseAnalysis(response)
ParseAnalysis(response) ==
  IF \/ "object" \notin DOMAIN response.json
     \/ ~IsArray(response.json.object, "experts")
     \/ ~IsArray(response.json.object, "subtasks")
  THEN CreateFallbackAnalysis(response.text)
  ELSE LET analysis == response.json.object
       IN  [experts |-> analysis.experts.array, subtasks |-> analysis.subtasks.array,
            workflow |-> IF "workflow" \in DOMAIN analysis THEN analysis.workflow ELSE "mixed",
            needsReview |-> IF "needsReview" \in DOMAIN analysis
                            THEN analysis.needsReview ELSE TRUE]

\* lead.analyze fulfils: the adapter's reply goes through parseAnalysis
AnalyzeReply ==
  /\ pc = "analyze"
  /\ \E response \in PlannerReplies :
       LET analysis == ParseAnalysis(response)
       IN  AnalyzedFrom(analysis.subtasks, analysis.workflow, analysis.needsReview,
                        {analysis.experts[k].id : k \in DOMAIN analysis.experts}, response)

\* lead.analyze rejects: execute rejects
AnalyzeFail ==
  /\ pc = "analyze"
  /\ Become([Cur EXCEPT !.pc = "aborted", !.error = "analyze"])

\* the expert.execute call of subtask k fulfils: its callback reports, publishes
\* and returns; whoever awaits it goes on
SubtaskOk(k) ==
  /\ k \in InFlight
  /\ LET s1 == Publish(ReportSubtask(PushReply([Cur EXCEPT !.calls[k] = "ok"], k),
                                     "subtaskDone", k),
                       subtasks[k].expertId, "output")
     IN  CASE pc = "seq" ->
                Become(ExecuteSequentialLoop(
                         [s1 EXCEPT !.outputs = Append(@, OutputOf(s1, k)),
                                    !.completed = @ \cup {subtasks[k].id}], pos + 1))
           [] pc = "batch" /\ BatchFulfilled(s1) -> Become(BatchJoin(s1))
           [] OTHER -> Become(s1)

\* SubtaskFail with the rejection swallowed by the callback
SubtaskFailSwallowed(k) ==
  /\ k \in InFlight
  /\ Become([Cur EXCEPT !.calls[k] = "failed"])

\* the expert.execute call of subtask k rejects: Promise.all (or the await of
\* executeSequential) rejects at once and execute rejects
SubtaskFail(k) ==
  /\ k \in InFlight
  /\ Become([Cur EXCEPT !.calls[k] = "failed",
                        !.pc = IF pc \in {"seq", "batch"} THEN "aborted" ELSE pc,
                        !.error = IF pc \in {"seq", "batch"} THEN "subtask" ELSE error])

\* a call left in flight by an earlier execute call fulfils: its callback
\* still reports and publishes into the shared space
StaleOk(c) ==
  /\ c \in stale
  /\ Become([Cur EXCEPT !.stale = @ \ {c},
                        !.progress = Append(@, [run |-> c.run, kind |-> "subtaskDone", pct |-> -1, task |-> c.task]),
                        !.space = Append(@, [run |-> c.run, from |-> ExpertId, type |-> "output"])])

\* a call left in flight by an earlier execute call rejects: nobody listens
StaleFail(c) ==
  /\ c \in stale
  /\ Become([Cur EXCEPT !.stale = @ \ {c}])

\* performReview after `await reviewExpert.review(...)` fulfils, then execute
\* up to `await this.lead.summarize(...)`
ReviewOk ==
  /\ pc = "review"
  /\ LET s1 == Publish(Cur, "reviewer", "review")
     IN  Become(Summarize([s1 EXCEPT !.outputs = Append(@, [expertId |-> "reviewer", task |-> 0])]))

\* the review call rejects: execute rejects
ReviewFail ==
  /\ pc = "review"
  /\ Become([Cur EXCEPT !.pc = "aborted", !.error = "review"])

\* lead.summarize fulfils: the summary is cached and the result returned
SummarizeOk(summary) ==
  /\ pc = "summarize"
  /\ LET s1 == ReportProgress(Cur, "complete", 100)
     IN  Become([s1 EXCEPT !.cache = CacheSet(@, OrchKey, summary, now), !.pc = "done",
                           !.result = [success |-> TRUE, summary |-> summary,
                                       outputs |-> s1.outputs, conversation |-> s1.space]])

\* lead.summarize rejects: execute rejects, nothing is cached
SummarizeFail ==
  /\ pc = "summarize"
  /\ Become([Cur EXCEPT !.pc = "aborted", !.error = "summarize"])

\* one execute call on a fresh orchestrator
OneCallNext ==
  \/ (run = 0 /\ ExecuteMiss)
  \/ AnalyzeOk
  \/ AnalyzeFail
  \/ \E k \in InFlight : SubtaskOk(k)
  \/ \E k \in InFlight : SubtaskFail(k)
  \/ ReviewOk
  \/ ReviewFail
  \/ \E summary \in Summaries : SummarizeOk(summary)
  \/ SummarizeFail


(***************************************************************************)
(* FallbackAdapter: one adapter built over the chain [primary, fallbacks]. *)
(* An error thrown by an adapter is a record of its status (0: the error   *)
(* carries none) and its code ("": none).  The message of an error is the  *)
(* error itself.                                                           *)
(***************************************************************************)
\* largest chain: config.maxRetries plus the number of fallback adapters
MaxChain == 3
\* number of chat calls made on one FallbackAdapter in one behaviour
MaxChats == 2

\* defaults of the constructor
DefaultRetryDelay == 1000
DefaultMaxRetryDelay == 30000
DefaultBackoffMultiplier == 2
\* the floor of the delay after a rate-limit failure
RateLimitFloor == 5000

NoError == [status |-> -1, code |-> "unset", message |-> ""]
MixedErrors == [status |-> -2, code |-> "mixed", message |-> ""]
\* the errors an attempt may end in (status 0: the error carries no status;
\* message "": the error carries no message)
AdapterErrors ==
  { [status |-> 429, code |-> "", message |-> "rate limited"],
    [status |-> 503, code |-> "", message |-> "unavailable"],
    [status |-> 501, code |-> "", message |-> "not implemented"],
    [status |-> 400, code |-> "", message |-> "bad request"],
    [status |-> 404, code |-> "ECONNRESET", message |-> "reset"],
    [status |-> 0, code |-> "", message |-> ""],
    [status |-> 0, code |-> "rate_limit_exceeded", message |-> "quota"] }

\* a terminal error that drops the failure's message
TerminalMessageGeneric(err) == "unknown error"

\* the text after the prefix of the terminal error: lastError?.message || '未知错误'
TerminalMessage(err) == IF err.message = "" THEN "unknown error" ELSE err.message

\* Math.random() - 0.5, in hundredths
Jitters == {-50, 0, 49}

NoteKinds == {"retry", "rateLimit", "fallbackUsed", "notRetryable", "failed", "switching"}

\* the fields of a new FallbackAdapter(config), no chat call made yet
ChatConstructed ==
  /\ maxRetries \in 0..MaxChain
  /\ fallbacks \in 0..(MaxChain - maxRetries)
  /\ maxRetryDelay \in {DefaultMaxRetryDelay, RateLimitFloor}
  /\ observer \in BOOLEAN
  /\ cpc = "idle" /\ ci = 0 /\ retry = 0 /\ lastError = NoError /\ delay = 0
  /\ chats = 0 /\ value = 0 /\ thrown = ""
  /\ previous = [cpc |-> "idle", answeredBy |-> "none"]
  /\ notes = [n \in NoteKinds |-> 0]
  /\ attemptsOn = [a \in 1..(fallbacks + 1) |-> 0]
  /\ failuresOn = [a \in 1..(fallbacks + 1) |-> NoError]
  /\ sleepsOn = [a \in 1..(fallbacks + 1) |-> 0]

\* the fields of a new Orchestrator(config): the cache has the default
\* capacity and TTL and is enabled
OrchConstructed == OrchLocalsConstructed /\ cache = InitState.cache

\* the FallbackAdapter of a specification that makes no chat call
ChatUnused ==
  /\ ChatConstructed
  /\ maxRetries = 0 /\ fallbacks = 0 /\ maxRetryDelay = DefaultMaxRetryDelay /\ ~observer

\* a new Orchestrator; its adapters make no chat call of their own
OrchInit == OrchConstructed /\ ChatUnused /\ CacheUnused /\ LedgerUnused

\* a new FallbackAdapter of any configuration, beside an idle Orchestrator
ChatInit == OrchConstructed /\ ChatConstructed /\ CacheUnused /\ LedgerUnused

\* this.onProgress?.(message)
Notify(ns, kind) == IF observer THEN [ns EXCEPT ![kind] = @ + 1] ELSE ns

\* shouldRetry without its `status === 429` line
ShouldRetryNo429(err, currentRetry) ==
  IF currentRetry >= maxRetries THEN FALSE
  ELSE IF err.status \in {500, 502, 503, 504} THEN TRUE
  ELSE IF err.code \in {"ECONNRESET", "ETIMEDOUT", "ENOTFOUND"} THEN TRUE
  ELSE IF err.status = 0 THEN TRUE
  ELSE IF err.status >= 400 /\ err.status < 500 THEN FALSE
  ELSE TRUE

\* shouldRetry giving up one retry early
ShouldRetryEarly(err, currentRetry) ==
  IF currentRetry + 1 >= maxRetries THEN FALSE
  ELSE IF err.status \in {429, 500, 502, 503, 504} THEN TRUE
  ELSE IF err.code \in {"ECONNRESET", "ETIMEDOUT", "ENOTFOUND"} THEN TRUE
  ELSE IF err.status = 0 THEN TRUE
  ELSE IF err.status >= 400 /\ err.status < 500 THEN FALSE
  ELSE TRUE

\* FallbackAdapter.shouldRetry
ShouldRetry(err, currentRetry) ==
  IF currentRetry >= maxRetries THEN FALSE
  ELSE IF err.status = 429 THEN TRUE
  ELSE IF err.status = 500 THEN TRUE
  ELSE IF err.status = 502 THEN TRUE
  ELSE IF err.status = 503 THEN TRUE
  ELSE IF err.status = 504 THEN TRUE
  ELSE IF err.code = "ECONNRESET" THEN TRUE
  ELSE IF err.code = "ETIMEDOUT" THEN TRUE
  ELSE IF err.code = "ENOTFOUND" THEN TRUE
  ELSE IF err.status = 0 THEN TRUE
  ELSE IF err.status >= 400 /\ err.status < 500 THEN FALSE
  ELSE TRUE

\* the test of calculateBackoff for a rate-limit failure
IsRateLimit(err) == err.status = 429 \/ err.code = "rate_limit_exceeded"

RECURSIVE Pow(_, _)
Pow(b, e) == IF e = 0 THEN 1 ELSE b * Pow(b, e - 1)

Maximum(a, b) == IF a >= b THEN a ELSE b
Minimum(a, b) == IF a <= b THEN a ELSE b

\* calculateBackoff without its final Math.min
CalculateBackoffUncapped(r, err, j) ==
  LET d0 == DefaultRetryDelay * Pow(DefaultBackoffMultiplier, r - 1)
      d1 == IF IsRateLimit(err) THEN Maximum(d0, RateLimitFloor) * 2 ELSE d0
  IN  d1 + (d1 * 2 * j) \div 1000

\* FallbackAdapter.calculateBackoff, with Math.random() - 0.5 = j / 100
CalculateBackoff(r, err, j) ==
  LET d0 == DefaultRetryDelay * Pow(DefaultBackoffMultiplier, r - 1)
      d1 == IF IsRateLimit(err) THEN Maximum(d0, RateLimitFloor) * 2 ELSE d0
      d2 == d1 + (d1 * 2 * j) \div 1000
  IN  Minimum(d2, maxRetryDelay)

(***************************************************************************)
(* Actions of FallbackAdapter.chat: one per macrotask.                     *)
(***************************************************************************)
Adapters == 1..(fallbacks + 1)

\* chat resuming at the adapter that answered the previous call
ChatCallSticky ==
  /\ cpc \in {"idle", "returned", "thrown"}
  /\ chats < MaxChats
  /\ chats' = chats + 1
  /\ ci' = (IF value > 1 THEN value ELSE 1) /\ retry' = 0 /\ lastError' = NoError
  /\ value' = 0 /\ thrown' = "" /\ delay' = 0
  /\ previous' = [cpc |-> cpc,
                  answeredBy |-> IF value = 0 THEN "none"
                                 ELSE IF value = 1 THEN "primary" ELSE "fallback"]
  /\ notes' = [n \in NoteKinds |-> 0]
  /\ attemptsOn' = [a \in 1..(fallbacks + 1) |-> IF a = ci' THEN 1 ELSE 0]
  /\ failuresOn' = [a \in 1..(fallbacks + 1) |-> NoError]
  /\ sleepsOn' = [a \in 1..(fallbacks + 1) |-> 0]
  /\ cpc' = "attempt"
  /\ UNCHANGED <<maxRetries, fallbacks, maxRetryDelay, observer>>
  /\ UNCHANGED <<orchVars, cacheVars, ledgerVars>>

\* a caller invokes chat(messages) after the previous call is over: the
\* first attempt on the primary is made without a sleep
ChatCall ==
  /\ cpc \in {"idle", "returned", "thrown"}
  /\ chats < MaxChats
  /\ chats' = chats + 1
  /\ ci' = 1 /\ retry' = 0 /\ lastError' = NoError
  /\ value' = 0 /\ thrown' = "" /\ delay' = 0
  /\ previous' = [cpc |-> cpc,
                  answeredBy |-> IF value = 0 THEN "none"
                                 ELSE IF value = 1 THEN "primary" ELSE "fallback"]
  /\ notes' = [n \in NoteKinds |-> 0]
  /\ attemptsOn' = [a \in Adapters |-> IF a = 1 THEN 1 ELSE 0]
  /\ failuresOn' = [a \in Adapters |-> NoError]
  /\ sleepsOn' = [a \in Adapters |-> 0]
  /\ cpc' = "attempt"
  /\ UNCHANGED <<maxRetries, fallbacks, maxRetryDelay, observer>>
  /\ UNCHANGED <<orchVars, cacheVars, ledgerVars>>

\* adapter.chat(messages) fulfils: chat returns its result
AttemptOk ==
  /\ cpc = "attempt"
  /\ notes' = IF ci > 1 THEN Notify(notes, "fallbackUsed") ELSE notes
  /\ value' = ci
  /\ cpc' = "returned"
  /\ UNCHANGED <<maxRetries, fallbacks, maxRetryDelay, observer, ci, retry, lastError,
                 delay, chats, thrown, attemptsOn, failuresOn, sleepsOn, previous>>
  /\ UNCHANGED <<orchVars, cacheVars, ledgerVars>>

\* adapter.chat(messages) rejects with err: the catch block, then either the
\* next round of the retry loop up to its sleep, or the next adapter up to
\* its first attempt, or the terminal error
AttemptFail(err, j) ==
  /\ cpc = "attempt"
  /\ lastError' = err
  /\ failuresOn' = [failuresOn EXCEPT ![ci] = IF @ \in {NoError, err} THEN err ELSE MixedErrors]
  /\ IF ShouldRetry(err, retry)
     THEN /\ retry' = retry + 1
          /\ delay' = CalculateBackoff(retry + 1, err, j)
          /\ notes' = LET n1 == IF retry = maxRetries THEN Notify(notes, "failed") ELSE notes
                          n2 == IF IsRateLimit(err) THEN Notify(n1, "rateLimit") ELSE n1
                      IN  Notify(n2, "retry")
          /\ sleepsOn' = [sleepsOn EXCEPT ![ci] = @ + 1]
          /\ cpc' = "sleep"
          /\ UNCHANGED <<ci, thrown, attemptsOn>>
     ELSE IF ci < fallbacks + 1
          THEN /\ notes' = Notify(Notify(notes, "notRetryable"), "switching")
               /\ ci' = ci + 1
               /\ retry' = 0
               /\ attemptsOn' = [attemptsOn EXCEPT ![ci + 1] = @ + 1]
               /\ cpc' = "attempt"
               /\ UNCHANGED <<delay, thrown, sleepsOn>>
          ELSE /\ notes' = Notify(notes, "notRetryable")
               /\ thrown' = TerminalMessage(err)
               /\ cpc' = "thrown"
               /\ UNCHANGED <<ci, retry, delay, attemptsOn, sleepsOn>>
  /\ UNCHANGED <<maxRetries, fallbacks, maxRetryDelay, observer, chats, value, previous>>
  /\ UNCHANGED <<orchVars, cacheVars, ledgerVars>>

\* the sleep before a retry is over: the retry is made
SleepDone ==
  /\ cpc = "sleep"
  /\ attemptsOn' = [attemptsOn EXCEPT ![ci] = @ + 1]
  /\ delay' = 0
  /\ cpc' = "attempt"
  /\ UNCHANGED <<maxRetries, fallbacks, maxRetryDelay, observer, ci, retry, lastError,
                 chats, value, thrown, notes, failuresOn, sleepsOn, previous>>
  /\ UNCHANGED <<orchVars, cacheVars, ledgerVars>>

ChatNext ==
  \/ ChatCall
  \/ AttemptOk
  \/ (cpc = "attempt" /\ \E err \in AdapterErrors, j \in Jitters : AttemptFail(err, j))
  \/ SleepDone

(***************************************************************************)
(* Operations on a TaskCache, one action per call: set and get are         *)
(* synchronous, so each is one step whoever the caller is.                 *)
(***************************************************************************)
\* largest number of cache operations and clock advances in one behaviour
MaxOps == 4
\* largest config.maxSize of a TaskCache built on its own
MaxCapacity == 2

\* the (task, context) arguments passed to set and get
CacheInputs ==
  { [task |-> <<"A">>, ctx |-> Absent],
    [task |-> <<"a", " ">>, ctx |-> <<>>],
    [task |-> <<"a", "|">>, ctx |-> Absent],
    [task |-> <<"a">>, ctx |-> <<"|">>],
    [task |-> <<"a", " ", " ", "A">>, ctx |-> Absent],
    [task |-> <<"a", " ", "a">>, ctx |-> <<" ">>] }

\* the results passed to set
CacheResults == {"r1", "r2"}

\* the amounts by which the clock advances between two operations
ClockSteps == {1, DefaultTtl}

\* a new TaskCache(config) of any capacity, enabled or not
CacheInit ==
  /\ OrchLocalsConstructed /\ ChatUnused /\ CacheUnused /\ LedgerUnused
  /\ \E m \in 0..MaxCapacity, e \in BOOLEAN : cache = NewTaskCache(m, DefaultTtl, e)

\* cache.set(p.task, r, p.ctx)
SetOp(p, r) ==
  /\ ops < MaxOps
  /\ cache' = CacheSet(cache, GenerateKey(p.task, p.ctx), r, now)
  /\ lastOp' = [kind |-> "set", task |-> p.task, ctx |-> p.ctx, result |-> r, value |-> Null,
                before |-> Len(cache.entries), expired |-> ExpiredCount(cache, now)]
  /\ ops' = ops + 1
  /\ UNCHANGED <<now, orchLocals, chatVars, ledgerVars>>

\* cache.get(p.task, p.ctx)
GetOp(p) ==
  /\ ops < MaxOps
  /\ LET g == CacheGet(cache, GenerateKey(p.task, p.ctx), now)
     IN  /\ cache' = g.cache
         /\ lastOp' = [kind |-> "get", task |-> p.task, ctx |-> p.ctx, result |-> Null,
                       value |-> g.value, before |-> Len(cache.entries),
                       expired |-> ExpiredCount(cache, now)]
  /\ ops' = ops + 1
  /\ UNCHANGED <<now, orchLocals, chatVars, ledgerVars>>

\* time passes between two calls (no execute call is in progress)
Tick(d) ==
  /\ ops < MaxOps
  /\ pc \in {"idle", "done", "aborted"}
  /\ now' = now + d
  /\ lastOp' = [NoOp EXCEPT !.kind = "tick"]
  /\ ops' = ops + 1
  /\ UNCHANGED <<orchVars, chatVars, ledgerVars>>

CacheNext ==
  \/ (ops < MaxOps /\ \E p \in CacheInputs, r \in CacheResults : SetOp(p, r))
  \/ (ops < MaxOps /\ \E p \in CacheInputs : GetOp(p))
  \/ (ops < MaxOps /\ \E d \in ClockSteps : Tick(d))

\* time passes between the return of an execute call and the next call
RerunTick(d) == run >= 1 /\ ops < MaxRuns /\ Tick(d)

\* execute calls one after the other, the clock advancing between them
OrchNext ==
  \/ ExecuteCached
  \/ ExecuteMiss
  \/ AnalyzeBrief
  \/ AnalyzeReply
  \/ AnalyzeFail
  \/ \E k \in InFlight : SubtaskOk(k)
  \/ \E k \in InFlight : SubtaskFail(k)
  \/ \E c \in stale : StaleOk(c)
  \/ \E c \in stale : StaleFail(c)
  \/ ReviewOk
  \/ ReviewFail
  \/ \E summary \in Summaries : SummarizeOk(summary)
  \/ SummarizeFail
  \/ \E d \in ClockSteps : RerunTick(d)

(***************************************************************************)
(* One set on a cache that is full, some of its entries expired.           *)
(***************************************************************************)
\* config.maxSize of the full caches
EvictCapacity == 6

\* the hit counts the entries of a full cache have gathered
HitCounts == {0, 1, 2}

\* the age and use of an entry of a full cache: set at time 0 and hit often
\* since, or set at time 1 with any of the hit counts
EntryShapes ==
  [createdAt : {0}, hits : {2}] \cup [createdAt : {1}, hits : HitCounts]

\* the i-th of the tasks the full cache holds
EvictTask(i) == [j \in 1..i |-> "a"]

\* the caches holding EvictCapacity entries, set at time 0 or at time 1
FullCaches ==
  { [NewTaskCache(EvictCapacity, DefaultTtl, TRUE) EXCEPT
       !.entries = [i \in 1..EvictCapacity |->
                      [key |-> GenerateKey(EvictTask(i), Absent), result |-> "r2",
                       createdAt |-> f[i].createdAt, hits |-> f[i].hits]]] :
      f \in [1..EvictCapacity -> EntryShapes] }

\* a full cache at the time the entries set at time 0 have just expired
EvictInit ==
  /\ OrchLocalsConstructed /\ ChatUnused /\ LedgerUnused
  /\ now = DefaultTtl + 1 /\ ops = 0 /\ lastOp = NoOp
  /\ cache \in FullCaches

\* the arguments of the set: a task the cache holds, and a new one
EvictInputs ==
  { [task |-> EvictTask(1), ctx |-> Absent],
    [task |-> EvictTask(EvictCapacity + 1), ctx |-> Absent] }

EvictNext == ops = 0 /\ \E p \in EvictInputs : SetOp(p, "r1")

(***************************************************************************)
(* The operations of the ResumableTaskManager.  Each is synchronous (the   *)
(* fs calls are the *Sync ones), so each is one step.  A record is modelled *)
(* by the fields the operations read or write; task, context, experts,     *)
(* workflow and needsReview are copied by create and never touched again.  *)
(* An optional property holds Undefined or a record: [text |-> ...] for a  *)
(* string, [at |-> t] for a time stamp.                                    *)
(***************************************************************************)
TaskStatuses == {"pending", "running", "paused", "completed", "failed"}

\* the optional properties of a ResumableTask and of a SubTaskState
TaskOptional == {"pauseReason", "error"}
StateOptional == {"output", "error", "startedAt", "completedAt"}

\* obj[f], undefined when obj has no property f
Field(obj, f) == IF f \in DOMAIN obj THEN obj[f] ELSE Undefined

\* obj[f] = v
Assign(obj, f, v) == [g \in DOMAIN obj \cup {f} |-> IF g = f THEN v ELSE obj[g]]

\* Object.assign(obj, update)
ObjectAssign(obj, update) ==
  [g \in DOMAIN obj \cup DOMAIN update |-> IF g \in DOMAIN update THEN update[g] ELSE obj[g]]

\* what JSON.stringify keeps of obj: a property holding undefined is left out
Defined(obj, optional) ==
  [f \in DOMAIN obj \ {g \in optional \cap DOMAIN obj : obj[g] = Undefined} |-> obj[f]]

\* JSON.stringify(task, null, 2)
Stringify(task) ==
  [json |-> Defined(Assign(task, "subtaskStates",
                           [sid \in DOMAIN task.subtaskStates |->
                              Defined(task.subtaskStates[sid], StateOptional)]),
                    TaskOptional)]

\* JSON.parse(content)
Parse(content) == content.json

\* ResumableTaskManager.get
LedgerGet(fs, id) == IF fs[id] \in {NoFile, Torn} THEN NullTask ELSE Parse(fs[id])

\* the status of the record of id before an operation
StatusOf(fs, id) ==
  IF fs[id] = NoFile THEN "absent"
  ELSE IF fs[id] = Torn THEN "unreadable" ELSE Parse(fs[id]).status

\* the task object after save(task) at time t
Saved(task, t) == Assign(task, "updatedAt", t)

\* ResumableTaskManager.save: the files afterwards
Save(fs, task, t) == [fs EXCEPT ![task.id] = Stringify(Saved(task, t))]

\* the reasons and the error messages passed by the callers
PauseReasons == {Undefined, [text |-> "user request"]}
FailErrors == {[text |-> "error"]}

\* the updates passed to updateSubtask
SubtaskUpdates ==
  {[status |-> st] : st \in TaskStatuses \ {"paused"}}
    \cup {[status |-> "completed", output |-> [text |-> "output"]], [error |-> [text |-> "error"]]}

\* the plans passed to create: one subtask, two subtasks
LedgerPlans == {plan \in BriefLists : Len(plan) >= 1}

\* the subtask ids passed to updateSubtask: those of the plans and one more
LedgerSubtaskIds == {SubtaskIds[k] : k \in 1..3}

\* one ledger operation is made: what it was, on which record, what it returned
Answered(kind, id, reason, sub, ret) ==
  /\ ledgerOp' = [kind |-> kind, id |-> id, reason |-> reason, sub |-> sub,
                  was |-> StatusOf(files, id), value |-> ret]
  /\ ops' = ops + 1
  /\ UNCHANGED <<now, lastOp, orchVars, chatVars>>

\* the same for the operations on a whole record
Returned(kind, id, reason, ret) == Answered(kind, id, reason, Undefined, ret)

\* create(params), the random suffix of generateId being r
Create(r, plan) ==
  /\ ops < MaxLedgerOps
  /\ LET id == GenerateId(now, r)
         task == [id |-> id, status |-> "pending", subtasks |-> plan,
                  subtaskStates |-> [sid \in {plan[k].id : k \in DOMAIN plan} |->
                                       [id |-> sid, status |-> "pending"]],
                  completedOutputs |-> <<>>, createdAt |-> now, updatedAt |-> now]
     IN  /\ files' = Save(files, task, now)
         /\ Returned("create", id, Undefined, Saved(task, now))

\* updateSubtask that stamps the start time on every move into running
UpdateSubtaskRestamps(id, sid, update) ==
  /\ ops < MaxLedgerOps
  /\ LET task == LedgerGet(files, id)
     IN  IF task = NullTask \/ sid \notin DOMAIN task.subtaskStates
         THEN /\ files' = files
              /\ Answered("updateSubtask", id, Undefined, [sid |-> sid, update |-> update], NullTask)
         ELSE LET s1 == ObjectAssign(task.subtaskStates[sid], update)
                  status == IF "status" \in DOMAIN update THEN update.status ELSE "none"
                  s3 == IF status = "running"
                        THEN Assign(s1, "startedAt", [at |-> now]) ELSE s1
                  s4 == IF status \in {"completed", "failed"}
                        THEN Assign(s3, "completedAt", [at |-> now]) ELSE s3
                  t1 == [task EXCEPT !.subtaskStates[sid] = s4]
                  t2 == IF Field(update, "output") # Undefined
                        THEN [t1 EXCEPT !.completedOutputs = Append(@, update.output)]
                        ELSE t1
              IN  /\ files' = Save(files, t2, now)
                  /\ Answered("updateSubtask", id, Undefined, [sid |-> sid, update |-> update],
                              Saved(t2, now))

\* updateSubtask that writes the output passed over the accumulated outputs
UpdateSubtaskOverwritingOutputs(id, sid, update) ==
  /\ ops < MaxLedgerOps
  /\ LET task == LedgerGet(files, id)
     IN  IF task = NullTask \/ sid \notin DOMAIN task.subtaskStates
         THEN /\ files' = files
              /\ Answered("updateSubtask", id, Undefined, [sid |-> sid, update |-> update], NullTask)
         ELSE LET s1 == ObjectAssign(task.subtaskStates[sid], update)
                  status == IF "status" \in DOMAIN update THEN update.status ELSE "none"
                  s3 == IF status = "running" /\ Field(s1, "startedAt") = Undefined
                        THEN Assign(s1, "startedAt", [at |-> now]) ELSE s1
                  s4 == IF status \in {"completed", "failed"}
                        THEN Assign(s3, "completedAt", [at |-> now]) ELSE s3
                  t1 == [task EXCEPT !.subtaskStates[sid] = s4]
                  t2 == IF Field(update, "output") # Undefined
                        THEN [t1 EXCEPT !.completedOutputs = <<update.output>>]
                        ELSE t1
              IN  /\ files' = Save(files, t2, now)
                  /\ Answered("updateSubtask", id, Undefined, [sid |-> sid, update |-> update],
                              Saved(t2, now))

\* updateSubtask(id, sid, update)
UpdateSubtask(id, sid, update) ==
  /\ ops < MaxLedgerOps
  /\ LET task == LedgerGet(files, id)
     IN  IF task = NullTask \/ sid \notin DOMAIN task.subtaskStates
         THEN /\ files' = files
              /\ Answered("updateSubtask", id, Undefined, [sid |-> sid, update |-> update], NullTask)
         ELSE LET s1 == ObjectAssign(task.subtaskStates[sid], update)
                  status == IF "status" \in DOMAIN update THEN update.status ELSE "none"
                  s3 == IF status = "running" /\ Field(s1, "startedAt") = Undefined
                        THEN Assign(s1, "startedAt", [at |-> now]) ELSE s1
                  s4 == IF status \in {"completed", "failed"}
                        THEN Assign(s3, "completedAt", [at |-> now]) ELSE s3
                  t1 == [task EXCEPT !.subtaskStates[sid] = s4]
                  t2 == IF Field(update, "output") # Undefined
                        THEN [t1 EXCEPT !.completedOutputs = Append(@, update.output)]
                        ELSE t1
              IN  /\ files' = Save(files, t2, now)
                  /\ Answered("updateSubtask", id, Undefined, [sid |-> sid, update |-> update],
                              Saved(t2, now))

\* pause(id, reason) that refuses a record that is not running
PauseRunning(id, reason) ==
  /\ ops < MaxLedgerOps
  /\ LET task == LedgerGet(files, id)
     IN  IF task = NullTask \/ task.status # "running"
         THEN files' = files /\ Returned("pause", id, reason, NullTask)
         ELSE LET t1 == Assign([task EXCEPT !.status = "paused"], "pauseReason", reason)
              IN  /\ files' = Save(files, t1, now)
                  /\ Returned("pause", id, reason, Saved(t1, now))

\* pause(id, reason)
Pause(id, reason) ==
  /\ ops < MaxLedgerOps
  /\ LET task == LedgerGet(files, id)
     IN  IF task = NullTask
         THEN files' = files /\ Returned("pause", id, reason, NullTask)
         ELSE LET t1 == Assign([task EXCEPT !.status = "paused"], "pauseReason", reason)
              IN  /\ files' = Save(files, t1, now)
                  /\ Returned("pause", id, reason, Saved(t1, now))

\* resume(id) that accepts a record in any status
ResumeAny(id) ==
  /\ ops < MaxLedgerOps
  /\ LET task == LedgerGet(files, id)
     IN  IF task = NullTask
         THEN files' = files /\ Returned("resume", id, Undefined, NullTask)
         ELSE LET t1 == Assign([task EXCEPT !.status = "running"], "pauseReason", Undefined)
              IN  /\ files' = Save(files, t1, now)
                  /\ Returned("resume", id, Undefined, Saved(t1, now))

\* resume(id)
Resume(id) ==
  /\ ops < MaxLedgerOps
  /\ LET task == LedgerGet(files, id)
     IN  IF task = NullTask \/ task.status # "paused"
         THEN files' = files /\ Returned("resume", id, Undefined, NullTask)
         ELSE LET t1 == Assign([task EXCEPT !.status = "running"], "pauseReason", Undefined)
              IN  /\ files' = Save(files, t1, now)
                  /\ Returned("resume", id, Undefined, Saved(t1, now))

\* complete(id)
Complete(id) ==
  /\ ops < MaxLedgerOps
  /\ LET task == LedgerGet(files, id)
     IN  IF task = NullTask
         THEN files' = files /\ Returned("complete", id, Undefined, NullTask)
         ELSE LET t1 == [task EXCEPT !.status = "completed"]
              IN  /\ files' = Save(files, t1, now)
                  /\ Returned("complete", id, Undefined, Saved(t1, now))

\* fail(id, error)
Fail(id, err) ==
  /\ ops < MaxLedgerOps
  /\ LET task == LedgerGet(files, id)
     IN  IF task = NullTask
         THEN files' = files /\ Returned("fail", id, Undefined, NullTask)
         ELSE LET t1 == Assign([task EXCEPT !.status = "failed"], "error", err)
              IN  /\ files' = Save(files, t1, now)
                  /\ Returned("fail", id, Undefined, Saved(t1, now))

\* delete(id) that reports a deletion whether or not there was a file
DeleteReportsTrue(id) ==
  /\ ops < MaxLedgerOps
  /\ files' = [files EXCEPT ![id] = NoFile]
  /\ Returned("delete", id, Undefined, [deleted |-> TRUE])

\* delete(id)
Delete(id) ==
  /\ ops < MaxLedgerOps
  /\ files' = [files EXCEPT ![id] = NoFile]
  /\ Returned("delete", id, Undefined, [deleted |-> files[id] # NoFile])

\* the process stops inside writeFileSync while a mutation of the record id
\* (or a create that generated the id again) saves: the file is truncated or
\* partly written; a new manager takes over
TornWrite(id) ==
  /\ ops < MaxLedgerOps
  /\ files' = [files EXCEPT ![id] = Torn]
  /\ Returned("stopped", id, Undefined, NullTask)

\* the amounts by which the clock advances between two ledger operations
LedgerClockSteps == {1, SecondMs}

\* time passes between two ledger operations
LedgerTick(d) ==
  /\ ops < MaxLedgerOps
  /\ now' = now + d
  /\ ops' = ops + 1
  /\ UNCHANGED <<lastOp, orchVars, chatVars, ledgerVars>>

\* a new ResumableTaskManager over an empty tasksDir
LedgerInit == OrchConstructed /\ ChatUnused /\ CacheUnused /\ LedgerUnused

\* the ids that have a file in tasksDir
FileIds(fs) == {id \in TaskIds : fs[id] # NoFile}

\* readdirSync(tasksDir).filter(.json).sort().reverse(): the ids, greatest first
SortedReversed(fs) ==
  [k \in 1..Cardinality(FileIds(fs)) |->
     CHOOSE id \in FileIds(fs) :
       Cardinality({other \in FileIds(fs) : IdLess(id, other)}) = k - 1]

\* list(status): the records that parse, in that order, of the status asked
\* for ("any": no status passed)
List(fs, status) ==
  LET Wanted(id) == LedgerGet(fs, id) # NullTask
                    /\ (status = "any" \/ LedgerGet(fs, id).status = status)
      ids == SelectSeq(SortedReversed(fs), Wanted)
  IN  [k \in DOMAIN ids |-> LedgerGet(fs, ids[k])]

\* the ids the callers pass: those of the files, and the unknown one
CallIds == FileIds(files) \cup {UnknownId}

LedgerNext ==
  \/ (ops < MaxLedgerOps /\ \E r \in Suffixes, plan \in LedgerPlans : Create(r, plan))
  \/ (ops < MaxLedgerOps /\ \E id \in CallIds, sid \in LedgerSubtaskIds, update \in SubtaskUpdates :
         UpdateSubtask(id, sid, update))
  \/ (ops < MaxLedgerOps /\ \E id \in CallIds, reason \in PauseReasons : Pause(id, reason))
  \/ (ops < MaxLedgerOps /\ \E id \in CallIds : Resume(id))
  \/ (ops < MaxLedgerOps /\ \E id \in CallIds : Complete(id))
  \/ (ops < MaxLedgerOps /\ \E id \in CallIds, err \in FailErrors : Fail(id, err))
  \/ (ops < MaxLedgerOps /\ \E id \in CallIds : Delete(id))
  \/ (ops < MaxLedgerOps
      /\ \E id \in FileIds(files) : TornWrite(id))
  \/ (ops < MaxLedgerOps /\ \E d \in LedgerClockSteps : LedgerTick(d))

(***************************************************************************)
(* Specifications.                                                         *)
(***************************************************************************)
vars == <<orchVars, chatVars, cacheVars, ledgerVars>>

\* one execute call on a fresh orchestrator
SpecOrch == OrchInit /\ [][OneCallNext]_vars

\* up to MaxRuns execute calls, one after the other, on one orchestrator
SpecReruns == OrchInit /\ [][OrchNext]_vars

\* up to MaxChats chat calls, one after the other, on one FallbackAdapter
SpecChat == ChatInit /\ [][ChatNext]_vars

\* up to MaxOps operations on one TaskCache
SpecCache == CacheInit /\ [][CacheNext]_vars

\* one set on a full TaskCache
SpecEvict == EvictInit /\ [][EvictNext]_vars

\* 24 * 60 * 60 * 1000
DayMs == 86400000

\* cleanup(olderThanDays = 7)
DefaultOlderThanDays == 7

\* cleanup(days) that also deletes the records that are exactly days old
CleanupInclusive(days) ==
  /\ ops < MaxLedgerOps
  /\ LET tasks == List(files, "completed")
         cutoff == now - days * DayMs
         doomed == {tasks[k].id : k \in {j \in DOMAIN tasks : tasks[j].updatedAt <= cutoff}}
     IN  /\ files' = [id \in TaskIds |-> IF id \in doomed THEN NoFile ELSE files[id]]
         /\ Answered("cleanup", UnknownId, Undefined, [days |-> days],
                     [deleted |-> Cardinality(doomed)])

\* cleanup(days): every record list('completed') returns whose updatedAt is
\* before the cutoff is deleted; each delete finds its file and is counted
Cleanup(days) ==
  /\ ops < MaxLedgerOps
  /\ LET tasks == List(files, "completed")
         cutoff == now - days * DayMs
         doomed == {tasks[k].id : k \in {j \in DOMAIN tasks : tasks[j].updatedAt < cutoff}}
     IN  /\ files' = [id \in TaskIds |-> IF id \in doomed THEN NoFile ELSE files[id]]
         /\ Answered("cleanup", UnknownId, Undefined, [days |-> days],
                     [deleted |-> Cardinality(doomed)])

\* the ages cleanup is called with: one day, and the default
CleanupAges == {1, DefaultOlderThanDays}

\* the time of the cleanup, and the times of the last updates: one
\* millisecond more than an age ago, exactly an age ago, just now
CleanupTime == (DefaultOlderThanDays + 1) * DayMs
UpdateTimes ==
  {CleanupTime - days * DayMs - 1 : days \in CleanupAges}
    \cup {CleanupTime - days * DayMs : days \in CleanupAges} \cup {CleanupTime}

\* the record create made for id at time 0, as the operation that gave it the
\* status st at time t saved it
KeptRecord(id, st, t) ==
  LET plan == <<[id |-> "A", expertId |-> ExpertId, dependencies |-> <<>>]>>
      task == [id |-> id, status |-> st, subtasks |-> plan,
               subtaskStates |-> [sid \in {"A"} |-> [id |-> sid, status |-> "pending"]],
               completedOutputs |-> <<>>, createdAt |-> 0, updatedAt |-> 0]
  IN  Saved(IF st = "failed" THEN Assign(task, "error", [text |-> "error"]) ELSE task, t)

\* the ids of the records kept when cleanup is called
CleanupIds == <<GenerateId(0, 0), GenerateId(0, 1), GenerateId(SecondMs, 0)>>

\* the content of a file of tasksDir when cleanup is called: none, a cut-off
\* one, or a record of any status last updated at one of the times
KeptFiles(id) ==
  {NoFile, Torn} \cup {Stringify(KeptRecord(id, st, t)) : st \in TaskStatuses, t \in UpdateTimes}

\* a tasksDir filled by earlier operations, at the time of the cleanup
CleanupInit ==
  /\ OrchConstructed /\ ChatUnused
  /\ now = CleanupTime /\ ops = 0 /\ lastOp = NoOp
  /\ ledgerOp = NoLedgerOp
  /\ files \in {[id \in TaskIds |-> IF id = CleanupIds[1] THEN first
                                      ELSE IF id = CleanupIds[2] THEN second
                                      ELSE IF id = CleanupIds[3] THEN third ELSE NoFile] :
                  first \in KeptFiles(CleanupIds[1]), second \in KeptFiles(CleanupIds[2]),
                  third \in KeptFiles(CleanupIds[3])}

CleanupNext == ops = 0 /\ \E days \in CleanupAges : Cleanup(days)

\* the plans with prerequisites: A first, then B; subtask C is in no plan, so
\* a prerequisite C has no state
DepPlans ==
  {<<[id |-> "A", expertId |-> ExpertId, dependencies |-> depsA],
     [id |-> "B", expertId |-> ExpertId, dependencies |-> depsB]>> :
     depsA \in {<<>>, <<"C">>}, depsB \in {<<>>, <<"A">>, <<"A", "C">>}}

\* canExecuteSubtask(task, sid) that takes a prerequisite without a state for
\* a fulfilled one
CanExecuteIgnoringUnknown(task, sid) ==
  LET found == {k \in DOMAIN task.subtasks : task.subtasks[k].id = sid}
  IN  IF found = {} THEN FALSE
      ELSE LET subtask == task.subtasks[CHOOSE k \in found : \A other \in found : k <= other]
           IN  \A i \in DOMAIN subtask.dependencies :
                 subtask.dependencies[i] \in DOMAIN task.subtaskStates =>
                   task.subtaskStates[subtask.dependencies[i]].status = "completed"

\* canExecuteSubtask(task, sid)
CanExecuteSubtask(task, sid) ==
  LET found == {k \in DOMAIN task.subtasks : task.subtasks[k].id = sid}
  IN  IF found = {} THEN FALSE
      ELSE LET subtask == task.subtasks[CHOOSE k \in found : \A other \in found : k <= other]
           IN  \A i \in DOMAIN subtask.dependencies :
                 /\ subtask.dependencies[i] \in DOMAIN task.subtaskStates
                 /\ task.subtaskStates[subtask.dependencies[i]].status = "completed"

\* a caller gets the record id and asks whether its subtask sid can be executed
CanExecute(id, sid) ==
  /\ ops < MaxLedgerOps
  /\ LedgerGet(files, id) # NullTask
  /\ files' = files
  /\ Answered("canExecuteSubtask", id, Undefined, [sid |-> sid],
              [can |-> CanExecuteSubtask(LedgerGet(files, id), sid)])

\* one record with prerequisites is created, then its subtasks are updated
\* and asked about
DepsNext ==
  \/ (FileIds(files) = {} /\ \E plan \in DepPlans : Create(0, plan))
  \/ \E id \in FileIds(files), sid \in LedgerSubtaskIds, st \in TaskStatuses \ {"paused"} :
       UpdateSubtask(id, sid, [status |-> st])
  \/ \E id \in FileIds(files), sid \in LedgerSubtaskIds : CanExecute(id, sid)

\* getPendingSubtasks(task): the ids of the subtasks whose state is pending,
\* in the order of task.subtasks
GetPendingSubtasks(task) ==
  LET IsPending(st) == st.id \in DOMAIN task.subtaskStates
                       /\ task.subtaskStates[st.id].status = "pending"
      kept == SelectSeq(task.subtasks, IsPending)
  IN  [k \in DOMAIN kept |-> kept[k].id]

\* the acyclic plans of two subtasks: independent, B after A, A after B
ResumePlans ==
  {<<[id |-> "A", expertId |-> ExpertId, dependencies |-> depsA],
     [id |-> "B", expertId |-> ExpertId, dependencies |-> depsB]>> :
     depsA \in {<<>>, <<"B">>}, depsB \in {<<>>, <<"A">>}}
    \ {<<[id |-> "A", expertId |-> ExpertId, dependencies |-> <<"B">>],
          [id |-> "B", expertId |-> ExpertId, dependencies |-> <<"A">>]>>}

\* the id of the record the runner works on
ResumedId == GenerateId(0, 0)

\* a record created from one of the plans, nothing run yet
ResumeInit ==
  /\ OrchConstructed /\ ChatUnused /\ CacheUnused
  /\ ledgerOp = NoLedgerOp
  /\ \E plan \in ResumePlans :
       files = [id \in TaskIds |->
                  IF id = ResumedId
                  THEN Stringify([id |-> id, status |-> "pending", subtasks |-> plan,
                                  subtaskStates |-> [sid \in {plan[k].id : k \in DOMAIN plan} |->
                                                       [id |-> sid, status |-> "pending"]],
                                  completedOutputs |-> <<>>, createdAt |-> 0, updatedAt |-> 0])
                  ELSE NoFile]

\* the runner has marked subtask sid running and is executing it
Executing(sid) ==
  /\ ledgerOp.kind = "updateSubtask" /\ ledgerOp.value # NullTask
  /\ ledgerOp.sub = [sid |-> sid, update |-> [status |-> "running"]]

\* the runner, executing nothing, takes a subtask that getPendingSubtasks
\* returns and canExecuteSubtask accepts, and marks it running
RunnerStart(sid) ==
  /\ \A other \in LedgerSubtaskIds : ~Executing(other)
  /\ LET task == LedgerGet(files, ResumedId)
     IN  /\ task # NullTask
         /\ sid \in Range(GetPendingSubtasks(task))
         /\ CanExecuteSubtask(task, sid)
  /\ UpdateSubtask(ResumedId, sid, [status |-> "running"])

\* the runner has executed the subtask and marks it completed
RunnerFinish(sid, update) ==
  /\ Executing(sid)
  /\ UpdateSubtask(ResumedId, sid, update)

\* the process stops, between two subtasks or while one is executed, and
\* another one is started d milliseconds later; the new process knows what the
\* record says
RunnerInterrupt(d) ==
  /\ ledgerOp.kind # "stopped"
  /\ ledgerOp' = [ledgerOp EXCEPT !.kind = "stopped"]
  /\ now' = now + d
  /\ UNCHANGED <<files, ops, lastOp, orchVars, chatVars>>

\* the steps of the runner
RunnerNext ==
  \/ \E sid \in LedgerSubtaskIds : RunnerStart(sid)
  \/ \E sid \in LedgerSubtaskIds,
         update \in {[status |-> "completed"],
                     [status |-> "completed", output |-> [text |-> "output"]]} :
       RunnerFinish(sid, update)

ResumeNext == RunnerNext \/ \E d \in LedgerClockSteps : RunnerInterrupt(d)

\* up to MaxLedgerOps operations on one ResumableTaskManager
SpecLedger == LedgerInit /\ [][LedgerNext]_vars

\* one cleanup of a filled tasksDir
SpecCleanup == CleanupInit /\ [][CleanupNext]_vars

\* a runner works through one record, stopped and restarted at any point; a
\* runner that can take a step takes one
SpecResume == ResumeInit /\ [][ResumeNext]_vars /\ WF_vars(RunnerNext)

\* up to MaxLedgerOps operations on one record with prerequisites
SpecDeps == LedgerInit /\ [][DepsNext]_vars

(***************************************************************************)
(* Vocabulary of the properties of the Orchestrator.                       *)
(***************************************************************************)
Positions == 1..Len(subtasks)
DepIds(k) == Range(subtasks[k].dependencies)
HasExpert(k) == subtasks[k].expertId \in experts
\* k names a prerequisite that is no subtask of the analysis
Dangling(k) == \E d \in DepIds(k) : ~HasTask(subtasks, d)
\* the subtasks that k directly depends on
Prereqs(k) == {TaskMap(subtasks, d) : d \in {x \in DepIds(k) : HasTask(subtasks, x)}}

RECURSIVE PrereqClosure(_, _)
PrereqClosure(S, i) ==
  IF i = 0 THEN S ELSE PrereqClosure(S \cup UNION {Prereqs(k) : k \in S}, i - 1)

\* the subtasks that k depends on, directly or not
Ancestors(k) == PrereqClosure(Prereqs(k), Len(subtasks))
OnCycle(k) == k \in Ancestors(k)
\* k and everything it depends on can run: experts exist, no dangling
\* prerequisite, no cycle
Sound(k) == \A a \in Ancestors(k) \cup {k} : HasExpert(a) /\ ~Dangling(a) /\ ~OnCycle(a)
WellFormed == \A k \in Positions : Sound(k)
\* executeWithExperts has returned to execute
PastSubtasks == pc \in {"review", "summarize", "done"} \/ error \in {"review", "summarize"}
\* the outputs produced by subtasks (the reviewer's output has task 0)
SubtaskOutputs(outs) == LET IsSub(o) == o.task # 0 IN SelectSeq(outs, IsSub)
InWave(k, w) == \E j \in 1..Len(waves[w].tasks) : waves[w].tasks[j] = k
\* the failures a remote call can end in
ProviderFailures == {"none", "analyze", "subtask", "review", "summarize"}

\* C1: under the sequential policy, for an acyclic graph without dangling
\* prerequisites and with every expert present, a subtask is called at most
\* once, its call starts only when the calls of all its prerequisites have
\* completed, and once executeSequential has returned every subtask has been
\* called exactly once and its call has completed.
C1_SequentialOnceAfterPrereqs ==
  (workflow = "sequential" /\ WellFormed) =>
    /\ \A k \in Positions :
         /\ dispatched[k] <= 1
         /\ dispatched[k] = 1 => Prereqs(k) \subseteq startedAfter[k]
    /\ PastSubtasks => \A k \in Positions : dispatched[k] = 1 /\ calls[k] = "ok"

\* a sequential run of three subtasks in which a subtask declared first runs
\* after a prerequisite declared later, finished
C1_Witness ==
  /\ workflow = "sequential" /\ WellFormed /\ pc = "done"
  /\ Len(subtasks) = 3
  /\ sortedTasks # <<1, 2, 3>>
  /\ \A k \in Positions : calls[k] = "ok"

\* C2: under the mixed policy there are never more waves than subtasks, and
\* when executeMixed returns without having stalled (the ready set was never
\* empty with subtasks pending) nothing is pending, every subtask was handed
\* to exactly one wave and is marked completed, the call of every subtask
\* whose expert exists has completed, and no call was made for the others.
C2_MixedTerminatesAllDone ==
  workflow = "mixed" =>
    /\ Len(waves) <= Len(subtasks)
    /\ (PastSubtasks /\ ~halted) =>
         /\ pending = <<>>
         /\ \A k \in Positions :
              /\ Cardinality({w \in 1..Len(waves) : InWave(k, w)}) = 1
              /\ subtasks[k].id \in completed
              /\ calls[k] = (IF HasExpert(k) THEN "ok" ELSE "none")

\* a chain of three subtasks run to the end in three waves
C2_Witness ==
  /\ workflow = "mixed" /\ ~halted /\ pc = "done"
  /\ Len(subtasks) = 3 /\ Len(waves) = 3
  /\ \A k \in Positions : calls[k] = "ok"

\* C3: under the mixed policy, with a dependency cycle in the graph, there
\* are fewer waves than subtasks, no subtask on a cycle or depending on one
\* is ever handed to a wave or called, executeMixed returns by the stall
\* branch with exactly the outputs of the waves it ran, execute rejects only
\* with the failure of a remote call, and a call that returns reports success
\* after one summarize call.
C3_CycleHaltsWithPartialOutputs ==
  (workflow = "mixed" /\ \E c \in Positions : OnCycle(c)) =>
    /\ Len(waves) < Len(subtasks)
    /\ \A k \in Positions :
         (OnCycle(k) \/ \E a \in Ancestors(k) : OnCycle(a)) =>
           /\ dispatched[k] = 0
           /\ \A w \in 1..Len(waves) : ~InWave(k, w)
    /\ PastSubtasks =>
         /\ halted
         /\ {o.task : o \in Range(SubtaskOutputs(outputs))}
              = {k \in Positions : HasExpert(k) /\ \E w \in 1..Len(waves) : InWave(k, w)}
    /\ error \in ProviderFailures
    /\ (error = "subtask" => \E k \in Positions : calls[k] = "failed")
    /\ pc = "done" => result.success /\ summaryCalls = 1 /\ result.outputs = outputs

\* a run that executed one subtask, then stalled on a cycle, and returned
C3_Witness ==
  /\ workflow = "mixed" /\ pc = "done" /\ halted
  /\ \E c \in Positions : OnCycle(c)
  /\ Len(waves) >= 1
  /\ Len(result.outputs) >= 1
  /\ result.success

\* the graph A, B after A, C after A, every expert present
IsABC ==
  /\ Len(subtasks) = 3
  /\ subtasks[1].dependencies = <<>>
  /\ subtasks[2].dependencies = <<"A">>
  /\ subtasks[3].dependencies = <<"A">>
  /\ \A k \in Positions : HasExpert(k)

C5_BatchSettlesBeforeProceeding ==
  pc \in {"review", "summarize", "done", "aborted"} => InFlight = {}

\* C6: once the call of a subtask has failed, execute has rejected with that
\* failure, no review or summarize call has been made and nothing is
\* returned, and from then on no subtask is called and no wave is started.
C6_TerminalFailureAborts ==
  /\ []((\E k \in DOMAIN calls : calls[k] = "failed") =>
          /\ pc = "aborted" /\ error = "subtask"
          /\ result = NoResult /\ reviewCalls = 0 /\ summaryCalls = 0)
  /\ [][(\E k \in DOMAIN calls : calls[k] = "failed") =>
          /\ dispatched' = dispatched /\ waves' = waves
          /\ reviewCalls' = reviewCalls /\ summaryCalls' = summaryCalls
          /\ pc' = "aborted" /\ result' = result]_vars

\* a mixed run aborted by a failed call, with a subtask that was never called
C6_Witness ==
  /\ workflow = "mixed" /\ pc = "aborted" /\ error = "subtask"
  /\ \E k \in Positions : calls[k] = "failed"
  /\ \E k \in Positions : HasExpert(k) /\ dispatched[k] = 0

\* C7: a subtask whose expert does not exist is never called and has no
\* output; execute rejects only with the failure of a remote call; and once
\* the subtasks are over, every other subtask has been called once and has
\* completed if its expert exists and, under the policies that respect
\* dependencies, it and its prerequisites are free of missing experts,
\* dangling prerequisites and cycles.
C7_MissingExpertSkipped ==
  \A g \in Positions : ~HasExpert(g) =>
    /\ dispatched[g] = 0 /\ calls[g] = "none"
    /\ \A o \in Range(outputs) \cup Range(result.outputs) : o.task # g
    /\ error \in ProviderFailures
    /\ (error = "subtask" => \E k \in Positions : calls[k] = "failed")
    /\ PastSubtasks =>
         \A k \in Positions \ {g} :
           (HasExpert(k) /\ (workflow = "parallel" \/ Sound(k))) =>
             dispatched[k] = 1 /\ calls[k] = "ok"

\* a returned run in which one subtask was skipped for its missing expert
\* and another one, independent of it, was executed
C7_Witness ==
  /\ pc = "done"
  /\ \E g \in Positions : ~HasExpert(g) /\ dispatched[g] = 0
  /\ \E k \in Positions : HasExpert(k) /\ calls[k] = "ok"
  /\ Len(result.outputs) >= 1

\* C8: under the sequential and the mixed policy a subtask is called only if
\* every prerequisite it names is a subtask whose call has completed.
C8_UnmetPrerequisiteSkips ==
  workflow \in {"sequential", "mixed"} =>
    \A k \in Positions :
      dispatched[k] >= 1 =>
        \A d \in DepIds(k) : HasTask(subtasks, d) /\ calls[TaskMap(subtasks, d)] = "ok"

(***************************************************************************)
(* Properties of FallbackAdapter.chat.                                     *)
(***************************************************************************)
RateLimited == [status |-> 429, code |-> "", message |-> "rate limited"]
\* an error with a status in 400..499 other than 429
ClientError(err) == err.status >= 400 /\ err.status < 500 /\ err.status # 429

\* C9: in a call on a chain of a primary and one fallback, while the primary
\* has only failed, each time with status 429, and the fallback has not
\* failed, chat does not throw and makes at most maxRetries+1 attempts on the primary and one on
\* the fallback, and when it has returned it returned the fallback's result
\* after exactly maxRetries+1 attempts on the primary and one on the
\* fallback; and in every call the observer has received the 'fallback used'
\* notification once if chat returned the result of an adapter other than
\* the primary, and never otherwise.
C9_FallbackUsedOnce ==
  /\ (/\ fallbacks = 1 /\ chats > 0
      /\ failuresOn[1] = RateLimited /\ ~(cpc = "returned" /\ value = 1)
      /\ failuresOn[2] = NoError) =>
       /\ cpc # "thrown"
       /\ attemptsOn[1] <= maxRetries + 1 /\ attemptsOn[2] <= 1
       /\ cpc = "returned" =>
            /\ value = 2
            /\ attemptsOn[1] = maxRetries + 1
            /\ attemptsOn[2] = 1
  /\ notes["fallbackUsed"] = (IF observer /\ cpc = "returned" /\ value > 1 THEN 1 ELSE 0)

\* the fallback answered after three attempts on a primary that failed with
\* 429 each time, and the observer was told once
C9_Witness ==
  /\ fallbacks = 1 /\ maxRetries = 2 /\ observer
  /\ cpc = "returned" /\ value = 2
  /\ failuresOn[1] = RateLimited /\ attemptsOn[1] = 3 /\ attemptsOn[2] = 1
  /\ notes["fallbackUsed"] = 1

\* C10: no retry is made or pending on an adapter whose last attempt failed
\* with a status in 400..499 other than 429.
C10_ClientErrorNotRetried ==
  (cpc \in {"sleep", "attempt"} /\ retry > 0) => ~ClientError(lastError)

\* a failure of the classes called retryable: 5xx, 429, a transient network
\* code, or no status
RetryableClass(err) ==
  \/ err.status >= 500 /\ err.status <= 599
  \/ err.status = 429
  \/ err.code \in {"ECONNRESET", "ETIMEDOUT", "ENOTFOUND"}
  \/ err.status = 0

\* the step belongs to the chat call in progress (it does not start a call)
SameCall == chats' = chats

\* C11: in every call the adapters are attempted in chain order: the
\* adapters up to the current one have been attempted, none after it has;
\* no adapter gets more than maxRetries+1 attempts; an adapter the call has
\* left (or on which the call ended by throwing) whose failures were all one
\* retryable error got exactly maxRetries+1 attempts; and in every step of a
\* call attempts are added only on the current adapter, the current adapter
\* never moves back, the call leaves an adapter only after maxRetries+1
\* attempts or on a failure that is not retryable, and after chat returned
\* no attempt is made.
C11_ChainOrder ==
  /\ [](chats > 0 =>
         /\ \A a \in Adapters :
              /\ attemptsOn[a] <= maxRetries + 1
              /\ (a <= ci) = (attemptsOn[a] >= 1)
              /\ (/\ a < ci \/ (a = ci /\ cpc = "thrown")
                  /\ failuresOn[a] \in AdapterErrors
                  /\ RetryableClass(failuresOn[a])) => attemptsOn[a] = maxRetries + 1)
  /\ [][SameCall =>
         /\ ci' >= ci
         /\ \A a \in Adapters : a # ci' => attemptsOn'[a] = attemptsOn[a]
         /\ (ci' > ci \/ (cpc = "attempt" /\ cpc' = "thrown")) =>
              (attemptsOn[ci] = maxRetries + 1 \/ ~RetryableClass(lastError'))
         /\ cpc = "returned" => attemptsOn' = attemptsOn]_vars

\* the call is on its second adapter after three attempts on a primary that
\* failed with 503 each time
C11_Witness ==
  /\ maxRetries = 2 /\ ci = 2 /\ cpc = "attempt"
  /\ failuresOn[1].status = 503 /\ attemptsOn[1] = 3 /\ attemptsOn[2] = 1

\* the last adapter of the chain
LastAdapter == fallbacks + 1

\* C12: chat throws only when every adapter of the chain has been attempted
\* and has failed; it then has returned no value, and the terminal error
\* carries the message of the last failure of the call, the failure of the
\* last adapter (the fixed text for an unknown error when that failure has
\* no message); while a call is retrying or switching, and when it returned,
\* nothing has been thrown; and a call that has thrown or returned stays so.
C12_TerminalCarriesLastFailure ==
  /\ [](cpc = "thrown" =>
          /\ value = 0 /\ ci = LastAdapter
          /\ \A a \in Adapters : attemptsOn[a] >= 1 /\ failuresOn[a] # NoError
          /\ lastError \in AdapterErrors
          /\ failuresOn[LastAdapter] \in {lastError, MixedErrors}
          /\ thrown = (IF lastError.message = "" THEN "unknown error"
                       ELSE lastError.message))
  /\ [](cpc \in {"idle", "attempt", "sleep", "returned"} => thrown = "")
  /\ [](cpc = "returned" => value \in Adapters)
  /\ [][(SameCall /\ cpc \in {"thrown", "returned"}) =>
           (cpc' = cpc /\ thrown' = thrown /\ value' = value)]_vars

\* the primary failed with 503 and the fallback with 400: the terminal error
\* carries the message of the 400
C12_Witness ==
  /\ cpc = "thrown" /\ fallbacks = 1
  /\ failuresOn[1].status = 503 /\ failuresOn[2].status = 400
  /\ thrown = "bad request"

\* the delay before retry k after failure err, before jitter and cap:
\* base_delay * multiplier^(k-1), or twice the larger of that and 5000 ms
\* after a rate-limiting failure
NominalDelay(k, err) ==
  LET d0 == DefaultRetryDelay * Pow(DefaultBackoffMultiplier, k - 1)
  IN  IF err.status = 429 \/ err.code = "rate_limit_exceeded"
      THEN 2 * (IF d0 >= RateLimitFloor THEN d0 ELSE RateLimitFloor)
      ELSE d0

\* C13: every adapter has had one sleep per retry and none for its first
\* attempt (one more for the retry being slept for); a sleep in progress
\* precedes retry k >= 1 on the adapter whose previous attempt failed, its
\* delay is at most max_delay and at most 20% above the nominal delay of
\* retry k after that failure, and it is at least 20% below the nominal
\* delay only when it is the cap max_delay; and in every step of a call the
\* first attempt on an adapter does not follow a sleep while every retry ends
\* a sleep.
C13_BackoffDelay ==
  /\ [](chats > 0 =>
         \A a \in Adapters :
           sleepsOn[a] = (IF attemptsOn[a] = 0 THEN 0
                          ELSE IF a = ci /\ cpc = "sleep" THEN attemptsOn[a]
                          ELSE attemptsOn[a] - 1))
  /\ [](cpc = "sleep" =>
         /\ retry >= 1 /\ attemptsOn[ci] = retry
         /\ failuresOn[ci] \in {lastError, MixedErrors}
         /\ delay <= maxRetryDelay
         /\ 10 * delay <= 12 * NominalDelay(retry, lastError)
         /\ (10 * delay >= 8 * NominalDelay(retry, lastError) \/ delay = maxRetryDelay))
  /\ [](cpc # "sleep" => delay = 0)
  /\ [][\A a \in Adapters :
          (a \in DOMAIN attemptsOn /\ attemptsOn'[a] = attemptsOn[a] + 1) =>
             IF attemptsOn'[a] = 1 THEN cpc # "sleep"
             ELSE cpc = "sleep" /\ a = ci /\ SameCall]_vars

\* the second retry after rate-limit failures is being slept for: the delay
\* is the nominal 10 s plus jitter
C13_Witness ==
  /\ cpc = "sleep" /\ retry = 2 /\ lastError.status = 429
  /\ maxRetryDelay = DefaultMaxRetryDelay /\ delay > 10000

\* the previous call was answered by a fallback or exhausted the chain
PreviousDegraded ==
  previous.cpc = "thrown" \/ (previous.cpc = "returned" /\ previous.answeredBy = "fallback")

\* C14: a call made after a call that a fallback answered or that exhausted
\* the chain has attempted the primary, has used on the adapter it is on as
\* many retries as attempts beyond the first and at most maxRetries, and has
\* given maxRetries+1 attempts to every adapter it left after failures that
\* were all one retryable error; every call starts on the primary with no
\* retry used, no failure remembered and no attempt counted but its first;
\* and the configuration never changes.
C14_StatelessAcrossCalls ==
  /\ [](PreviousDegraded =>
         /\ ci >= 1 /\ attemptsOn[1] >= 1
         /\ retry <= maxRetries
         /\ cpc \in {"attempt", "returned", "thrown"} => attemptsOn[ci] = retry + 1
         /\ \A a \in Adapters :
              (a < ci /\ failuresOn[a] \in AdapterErrors /\ RetryableClass(failuresOn[a]))
                => attemptsOn[a] = maxRetries + 1)
  /\ [][chats' # chats =>
           /\ ci' = 1 /\ retry' = 0 /\ lastError' = NoError
           /\ attemptsOn' = [a \in Adapters |-> IF a = 1 THEN 1 ELSE 0]
           /\ failuresOn' = [a \in Adapters |-> NoError]
           /\ sleepsOn' = [a \in Adapters |-> 0]]_vars
  /\ [][UNCHANGED <<maxRetries, fallbacks, maxRetryDelay, observer>>]_vars

\* after a call that exhausted the chain, the next call was answered by the
\* primary on its last retry
C14_Witness ==
  /\ previous.cpc = "thrown" /\ fallbacks >= 1 /\ maxRetries >= 1
  /\ cpc = "returned" /\ value = 1 /\ attemptsOn[1] = maxRetries + 1

(***************************************************************************)
(* Properties of the TaskCache.                                            *)
(***************************************************************************)
\* the key of the arguments of the operation op
OpKey(op) == GenerateKey(op.task, op.ctx)

\* the entry cache c holds under key, when KeyIndex finds one
EntryOf(c, key) == c.entries[KeyIndex(c.entries, key)]

\* C15: on an enabled cache, set leaves under its key an entry with the result,
\* stamped with the current time; a get of the same arguments right after the
\* set returns that result; the stamp of an entry changes only by a set of
\* its key; and a get that finds an entry stamped more than the TTL ago
\* returns the miss value and leaves no entry under the key.
C15_SetGetTtl ==
  [][cache.enabled =>
       /\ (lastOp'.kind = "set" /\ ops' = ops + 1) =>
            /\ KeyIndex(cache'.entries, OpKey(lastOp')) # 0
            /\ EntryOf(cache', OpKey(lastOp')).result = lastOp'.result
            /\ EntryOf(cache', OpKey(lastOp')).createdAt = now
       /\ (lastOp.kind = "set" /\ lastOp'.kind = "get" /\ ops' = ops + 1
            /\ lastOp'.task = lastOp.task /\ lastOp'.ctx = lastOp.ctx) =>
            lastOp'.value = lastOp.result
       /\ \A i \in DOMAIN cache.entries :
            LET key == cache.entries[i].key
            IN  (KeyIndex(cache'.entries, key) # 0
                 /\ ~(lastOp'.kind = "set" /\ ops' = ops + 1 /\ OpKey(lastOp') = key)) =>
                  EntryOf(cache', key).createdAt = cache.entries[i].createdAt
       /\ (lastOp'.kind = "get" /\ ops' = ops + 1
            /\ KeyIndex(cache.entries, OpKey(lastOp')) # 0
            /\ now - EntryOf(cache, OpKey(lastOp')).createdAt > cache.ttl) =>
            /\ lastOp'.value = Null
            /\ KeyIndex(cache'.entries, OpKey(lastOp')) = 0]_vars

\* a get found the only entry expired and removed it
C15_Witness ==
  /\ cache.enabled /\ lastOp.kind = "get" /\ lastOp.value = Null
  /\ lastOp.before = 1 /\ lastOp.expired = 1 /\ cache.entries = <<>>

\* C16: the number of entries of a cache never exceeds its configured capacity.
C16_SizeWithinCapacity == Len(cache.entries) <= cache.maxSize

\* the same for the caches configured with a capacity of at least one entry
SizeWithinPositiveCapacity == cache.maxSize >= 1 => Len(cache.entries) <= cache.maxSize

\* Math.ceil(0.2 * maxSize): the least d with 5 * d >= maxSize
FifthRoundedUp(maxSize) ==
  CHOOSE d \in 0..maxSize : 5 * d >= maxSize /\ 5 * (d - 1) < maxSize

\* C17: a set on a cache at capacity removes every entry older than the TTL;
\* it removes entries that are not expired only when those alone still fill
\* the capacity, and then a fifth of the capacity, rounded up (one fewer of
\* the others when the entry of the key being set is among the removed and
\* is written again); every entry that stays is unchanged; and no entry
\* that stays has fewer hits than a removed entry that was not expired.
C17_EvictionOrder ==
  [][(lastOp'.kind = "set" /\ ops' = ops + 1 /\ cache.enabled
      /\ Len(cache.entries) >= cache.maxSize) =>
       LET key == OpKey(lastOp')
           Gone(e) == KeyIndex(cache'.entries, e.key) = 0
           outdated == {e \in Range(cache.entries) : now - e.createdAt > cache.ttl}
           live == Range(cache.entries) \ outdated
           removedLive == {e \in live : e.key # key /\ Gone(e)}
           kept == {e \in live : e.key # key /\ ~Gone(e)}
       IN  /\ \A e \in outdated : e.key # key => Gone(e)
           /\ \A e \in Range(cache'.entries) :
                IF e.key = key THEN e.createdAt = now /\ e.hits = 0
                ELSE e \in kept
           /\ Cardinality(live) < cache.maxSize => removedLive = {}
           /\ Cardinality(live) >= cache.maxSize =>
                Cardinality(removedLive) \in
                  (IF \E e \in live : e.key = key
                   THEN {FifthRoundedUp(cache.maxSize) - 1, FifthRoundedUp(cache.maxSize)}
                   ELSE {FifthRoundedUp(cache.maxSize)})
           /\ \A r \in removedLive, k \in kept : ~(k.hits < r.hits)]_vars

\* a set of a new key on a full cache with nothing expired removed two of
\* the entries and added its own
C17_Witness ==
  /\ lastOp.kind = "set" /\ lastOp.expired = 0
  /\ lastOp.before = cache.maxSize /\ FifthRoundedUp(cache.maxSize) = 2
  /\ Len(cache.entries) = lastOp.before - 1
  /\ \E i, j \in DOMAIN cache.entries : cache.entries[i].hits < cache.entries[j].hits

\* the context of a call after normalization, an absent one being empty
NormalizedContext(ctx) == IF ctx = Absent THEN <<>> ELSE NormalizeText(ctx)

\* the arguments of the operations a and b are equal after lower-casing,
\* trimming and whitespace collapsing, task with task and context with context
SameAfterNormalization(a, b) ==
  /\ NormalizeText(a.task) = NormalizeText(b.task)
  /\ NormalizedContext(a.ctx) = NormalizedContext(b.ctx)

\* C18: a get that follows the first set made on an enabled cache returns the
\* result that set stored exactly when the tasks of the two calls are equal
\* after normalization and their contexts are equal after normalization.
C18_KeyEquivalence ==
  [][(cache.enabled /\ ops = 1 /\ ops' = 2 /\ lastOp.kind = "set" /\ lastOp'.kind = "get") =>
       ((lastOp'.value = lastOp.result) <=> SameAfterNormalization(lastOp, lastOp'))]_vars

\* calls that differ only by case and spacing share the entry
SharedAfterNormalization ==
  [][(cache.enabled /\ ops = 1 /\ ops' = 2 /\ lastOp.kind = "set" /\ lastOp'.kind = "get"
      /\ SameAfterNormalization(lastOp, lastOp')) =>
       lastOp'.value = lastOp.result]_vars

(***************************************************************************)
(* Properties of the cache as the Orchestrator uses it.                    *)
(***************************************************************************)
\* the second execute call starts now, the first one having returned a
\* result no longer than the TTL ago
SecondCallWithinTtl ==
  /\ pc = "done" /\ run = 1 /\ run' = 2
  /\ now - EntryOf(cache, OrchKey).createdAt <= cache.ttl

\* the call that starts now returns the summary of the previous one at once,
\* the planner, the workers, the reviewer and the summarizer not invoked
ServedFromCache ==
  /\ pc' = "done" /\ result'.success /\ result'.summary = result.summary
  /\ analyzeCalls' = analyzeCalls /\ calls' = <<>>
  /\ reviewCalls' = 0 /\ summaryCalls' = 0

\* C19: when execute has returned a result and is called again with the same
\* task and context within the TTL, the second call invokes neither the
\* planner nor a worker, the reviewer or the summarizer and returns the
\* summary of the first call; the planner has been invoked once in all.
C19_SecondCallServedFromCache ==
  [][SecondCallWithinTtl => (ServedFromCache /\ analyzeCalls' = 1)]_vars

\* the same for the first calls that returned a summary that is not empty
NonEmptySummaryServedFromCache ==
  [][(SecondCallWithinTtl /\ result.summary # "") =>
       (ServedFromCache /\ analyzeCalls' = 1)]_vars

(***************************************************************************)
(* Properties of the ResumableTaskManager.                                 *)
(***************************************************************************)
\* the step is a pause call on an id that has a persisted record
PauseOfRecord ==
  /\ ledgerOp'.kind = "pause" /\ ops' = ops + 1 /\ now' = now
  /\ LedgerGet(files, ledgerOp'.id) # NullTask

\* after the step the persisted record of the paused id is paused, holds the
\* reason passed, carries the time of the call as its update time and is
\* otherwise as before, and the call returned that record
PausedAndPersisted ==
  LET id == ledgerOp'.id
      before == Parse(files[id])
      after == Parse(files'[id])
  IN  /\ LedgerGet(files', id) # NullTask
      /\ after.status = "paused"
      /\ Field(after, "pauseReason") = ledgerOp'.reason
      /\ after.updatedAt = now
      /\ \A f \in DOMAIN before \ {"status", "pauseReason", "updatedAt"} :
            f \in DOMAIN after /\ after[f] = before[f]
      /\ ledgerOp'.value # NullTask
      /\ Stringify(ledgerOp'.value) = files'[id]

\* C20: pause on a record whose status is running sets the status to paused,
\* stores the pause reason and persists the record; pause on a record in any
\* other status leaves the status of that record unchanged.
C20_PauseOnlyRunning ==
  [][PauseOfRecord =>
       IF StatusOf(files, ledgerOp'.id) = "running"
       THEN PausedAndPersisted
       ELSE StatusOf(files', ledgerOp'.id) = StatusOf(files, ledgerOp'.id)]_vars

\* C20, amended: pause on a record that exists, whatever its status, sets the
\* status to paused, stores the pause reason (none when none is passed),
\* persists the record and returns it, and touches no other record.
C20_PauseAnyStatus ==
  [][PauseOfRecord =>
       /\ PausedAndPersisted
       /\ \A id \in TaskIds \ {ledgerOp'.id} : files'[id] = files[id]]_vars

\* a running record has been paused with a reason
C20_Witness ==
  /\ ledgerOp.kind = "pause" /\ ledgerOp.was = "running"
  /\ ledgerOp.reason # Undefined
  /\ LedgerGet(files, ledgerOp.id) # NullTask
  /\ Parse(files[ledgerOp.id]).status = "paused"
  /\ Field(Parse(files[ledgerOp.id]), "pauseReason") = ledgerOp.reason

\* the step is a resume call on an id that has a persisted record
ResumeOfRecord ==
  /\ ledgerOp'.kind = "resume" /\ ops' = ops + 1 /\ now' = now
  /\ LedgerGet(files, ledgerOp'.id) # NullTask

\* C21: resume on a paused record sets the status to running, clears the
\* pause reason, persists the record with the time of the call as its update
\* time and returns it; resume on a record in any other status returns the
\* absence signal and leaves every persisted record as it was.
C21_ResumeOnlyPaused ==
  [][ResumeOfRecord =>
       LET id == ledgerOp'.id
           before == Parse(files[id])
       IN  IF before.status = "paused"
           THEN /\ LedgerGet(files', id) # NullTask
                /\ Parse(files'[id]).status = "running"
                /\ "pauseReason" \notin DOMAIN Parse(files'[id])
                /\ Parse(files'[id]).updatedAt = now
                /\ \A f \in DOMAIN before \ {"status", "pauseReason", "updatedAt"} :
                      f \in DOMAIN Parse(files'[id]) /\ Parse(files'[id])[f] = before[f]
                /\ ledgerOp'.value # NullTask
                /\ Stringify(ledgerOp'.value) = files'[id]
                /\ \A other \in TaskIds \ {id} : files'[other] = files[other]
           ELSE ledgerOp'.value = NullTask /\ files' = files]_vars

\* a record paused with a reason has been resumed later on
C21_Witness ==
  /\ ledgerOp.kind = "resume" /\ ledgerOp.was = "paused"
  /\ ledgerOp.value # NullTask
  /\ Parse(files[ledgerOp.id]).status = "running"
  /\ Parse(files[ledgerOp.id]).updatedAt > Parse(files[ledgerOp.id]).createdAt

\* the status of subtask sid in the persisted record of id
SubtaskStatus(fs, id, sid) == Parse(fs[id]).subtaskStates[sid].status

\* C22: in the persisted record of a task, a subtask that is completed or
\* failed never changes status again, and a running subtask never returns
\* to pending, whatever ledger operation is made on the record.
C22_SubtaskStatusOrder ==
  [][\A id \in TaskIds :
       (LedgerGet(files, id) # NullTask /\ LedgerGet(files', id) # NullTask
        /\ ~(ledgerOp'.kind = "create" /\ ops' = ops + 1 /\ now' = now)) =>
         \A sid \in DOMAIN Parse(files[id]).subtaskStates :
           /\ sid \in DOMAIN Parse(files'[id]).subtaskStates
           /\ SubtaskStatus(files, id, sid) \in {"completed", "failed"} =>
                SubtaskStatus(files', id, sid) = SubtaskStatus(files, id, sid)
           /\ SubtaskStatus(files, id, sid) = "running" =>
                SubtaskStatus(files', id, sid) # "pending"]_vars

\* the ids of the records list() returns
Listed(fs) == {List(fs, "any")[k].id : k \in DOMAIN List(fs, "any")}

\* C23: whatever step is taken, a stop of the process inside a mutation
\* included, get and list afterwards return for the id of a record that was
\* there either the record as it was or a complete record carrying the time
\* of the mutation as its update time, unless the step deletes the record.
C23_NoPartialWrite ==
  [][\A id \in TaskIds :
       (LedgerGet(files, id) # NullTask
        /\ ~(ledgerOp'.kind = "delete" /\ ledgerOp'.id = id /\ ops' = ops + 1 /\ now' = now)) =>
         /\ \/ LedgerGet(files', id) = LedgerGet(files, id)
            \/ /\ LedgerGet(files', id) # NullTask
               /\ LedgerGet(files', id).id = id
               /\ LedgerGet(files', id).updatedAt = now
         /\ id \in Listed(files')]_vars

\* the same, the steps in which the process stops inside a write left aside
NoPartialWriteUnlessStopped ==
  [][\A id \in TaskIds :
       (LedgerGet(files, id) # NullTask /\ ledgerOp'.kind \notin {"delete", "stopped"}) =>
         /\ \/ LedgerGet(files', id) = LedgerGet(files, id)
            \/ /\ LedgerGet(files', id) # NullTask
               /\ LedgerGet(files', id).id = id
               /\ LedgerGet(files', id).updatedAt = now
         /\ id \in Listed(files')]_vars

\* a step of one of the operations that look a record up before changing it
LookupKinds == {"updateSubtask", "pause", "resume", "complete", "fail"}

\* C24: get, updateSubtask, pause, resume, complete and fail on an id without
\* a persisted record return the absence signal and leave every file as it
\* is, delete on such an id returns false, and updateSubtask on a record that
\* has no subtask of the id passed returns the absence signal and leaves the
\* files as they are.
C24_AbsentIsSignalled ==
  [][(ops' = ops + 1 /\ now' = now) =>
       /\ (ledgerOp'.kind \in LookupKinds /\ files[ledgerOp'.id] = NoFile) =>
            /\ LedgerGet(files, ledgerOp'.id) = NullTask
            /\ ledgerOp'.value = NullTask
            /\ files' = files
       /\ (ledgerOp'.kind = "delete" /\ files[ledgerOp'.id] = NoFile) =>
            /\ ledgerOp'.value = [deleted |-> FALSE]
            /\ files' = files
       /\ (/\ ledgerOp'.kind = "updateSubtask"
           /\ LedgerGet(files, ledgerOp'.id) # NullTask
           /\ ledgerOp'.sub.sid \notin DOMAIN LedgerGet(files, ledgerOp'.id).subtaskStates) =>
            /\ ledgerOp'.value = NullTask
            /\ files' = files]_vars

\* a delete of an id without a file has answered false while other records
\* are persisted
C24_Witness ==
  /\ ledgerOp.kind = "delete" /\ ledgerOp.was = "absent"
  /\ ledgerOp.value = [deleted |-> FALSE]
  /\ FileIds(files) # {}

\* C26: an updateSubtask of a subtask the record has persists the status
\* passed, appends the output passed to the accumulated outputs and appends
\* nothing when none is passed, stamps the start time on a move into running
\* unless one is recorded already, stamps the finish time on a move into
\* completed or failed, and leaves the stamps alone otherwise.
C26_UpdateSubtaskStamps ==
  [][(/\ ledgerOp'.kind = "updateSubtask" /\ ops' = ops + 1 /\ now' = now
      /\ LedgerGet(files, ledgerOp'.id) # NullTask
      /\ ledgerOp'.sub.sid \in DOMAIN LedgerGet(files, ledgerOp'.id).subtaskStates) =>
       LET before == LedgerGet(files, ledgerOp'.id)
           after == LedgerGet(files', ledgerOp'.id)
           sid == ledgerOp'.sub.sid
           update == ledgerOp'.sub.update
           status == IF "status" \in DOMAIN update THEN update.status ELSE "none"
           old == before.subtaskStates[sid]
           new == after.subtaskStates[sid]
       IN  /\ after # NullTask /\ ledgerOp'.value = after
           /\ new.status = (IF status = "none" THEN old.status ELSE status)
           /\ after.completedOutputs =
                (IF Field(update, "output") = Undefined THEN before.completedOutputs
                 ELSE Append(before.completedOutputs, update.output))
           /\ Field(new, "startedAt") =
                (IF status = "running" /\ Field(old, "startedAt") = Undefined
                 THEN [at |-> now] ELSE Field(old, "startedAt"))
           /\ Field(new, "completedAt") =
                (IF status \in {"completed", "failed"}
                 THEN [at |-> now] ELSE Field(old, "completedAt"))]_vars

\* a subtask started at one time has been completed with an output later on
C26_Witness ==
  /\ ledgerOp.kind = "updateSubtask" /\ ledgerOp.value # NullTask
  /\ Field(ledgerOp.sub.update, "output") # Undefined
  /\ LET state == ledgerOp.value.subtaskStates[ledgerOp.sub.sid]
     IN  /\ state.status = "completed"
         /\ Field(state, "startedAt") # Undefined
         /\ Field(state, "completedAt") # Undefined
         /\ state.startedAt.at < state.completedAt.at
  /\ Len(ledgerOp.value.completedOutputs) = 1

\* C27: a create never writes over the file of an existing record, the id it
\* generates is greater than the id of every record created before, and list
\* returns the records newest first.
C27_IdsOrderedByCreation ==
  [][(ledgerOp'.kind = "create" /\ ops' = ops + 1 /\ now' = now) =>
       /\ files[ledgerOp'.id] = NoFile
       /\ \A other \in FileIds(files) : IdLess(other, ledgerOp'.id)
       /\ \A k, j \in DOMAIN List(files', "any") :
            k < j => List(files', "any")[k].createdAt >= List(files', "any")[j].createdAt]_vars

\* the same for the creates made in a second in which no record was created yet
IdsOrderedAcrossSeconds ==
  [][(/\ ledgerOp'.kind = "create" /\ ops' = ops + 1 /\ now' = now
      /\ \A other \in FileIds(files) : other[1] # ledgerOp'.id[1]) =>
       /\ files[ledgerOp'.id] = NoFile
       /\ \A other \in FileIds(files) : IdLess(other, ledgerOp'.id)]_vars

\* the status of the state the record keeps for subtask sid
StateStatus(task, sid) ==
  IF sid \in DOMAIN task.subtaskStates THEN task.subtaskStates[sid].status ELSE "absent"

\* the prerequisites of subtask sid of the record
Prerequisites(task, sid) ==
  UNION {Range(task.subtasks[k].dependencies) : k \in {j \in DOMAIN task.subtasks : task.subtasks[j].id = sid}}

\* C25: canExecuteSubtask answers true exactly when the subtask asked about is
\* one of the record's subtasks and each of its prerequisites has a state
\* whose status is completed; a prerequisite that is pending, running, failed
\* or without a state makes the answer false.
C25_CanExecuteIffPrerequisitesCompleted ==
  ledgerOp.kind = "canExecuteSubtask" =>
    LET task == LedgerGet(files, ledgerOp.id)
        sid == ledgerOp.sub.sid
    IN  /\ ledgerOp.value.can =
             (/\ \E k \in DOMAIN task.subtasks : task.subtasks[k].id = sid
              /\ \A dep \in Prerequisites(task, sid) : StateStatus(task, dep) = "completed")
        /\ (\E dep \in Prerequisites(task, sid) :
              StateStatus(task, dep) \in {"pending", "running", "failed", "absent"}) =>
             ~ledgerOp.value.can

\* a subtask whose only prerequisite is completed can be executed
C25_Witness ==
  /\ ledgerOp.kind = "canExecuteSubtask" /\ ledgerOp.value.can
  /\ Prerequisites(LedgerGet(files, ledgerOp.id), ledgerOp.sub.sid) = {"A"}

\* a subtask with a prerequisite that has no state cannot be executed
CannotExecuteOnUnknownPrerequisite ==
  /\ ledgerOp.kind = "canExecuteSubtask" /\ ~ledgerOp.value.can
  /\ Prerequisites(LedgerGet(files, ledgerOp.id), ledgerOp.sub.sid) = {"C"}

\* the record of id is completed and was last updated more than days ago
Due(fs, id, days, t) ==
  /\ LedgerGet(fs, id) # NullTask
  /\ LedgerGet(fs, id).status = "completed"
  /\ t - LedgerGet(fs, id).updatedAt > days * DayMs

\* C28: a cleanup removes the file of every record that is completed and was
\* last updated more than the age ago, leaves every other file as it is, and
\* returns the number of files it removed.
C28_CleanupDeletesOldCompleted ==
  [][ledgerOp'.kind = "cleanup" =>
       /\ \A id \in TaskIds :
            files'[id] = (IF Due(files, id, ledgerOp'.sub.days, now) THEN NoFile ELSE files[id])
       /\ ledgerOp'.value.deleted =
            Cardinality({id \in TaskIds : Due(files, id, ledgerOp'.sub.days, now)})]_vars

\* a cleanup has deleted one record and kept a completed record that is
\* exactly the age old and a record that is not completed
C28_Witness ==
  /\ ledgerOp.kind = "cleanup" /\ ledgerOp.value.deleted = 1
  /\ \E id \in TaskIds :
       /\ LedgerGet(files, id) # NullTask
       /\ LedgerGet(files, id).status = "completed"
       /\ now - LedgerGet(files, id).updatedAt = ledgerOp.sub.days * DayMs
  /\ \E id \in TaskIds :
       /\ LedgerGet(files, id) # NullTask
       /\ LedgerGet(files, id).status = "paused"
       /\ now - LedgerGet(files, id).updatedAt > ledgerOp.sub.days * DayMs

(***************************************************************************)
(* Properties of the planner's fallback and of the review pass.            *)
(***************************************************************************)
\* the plan of the current call is one expert and one subtask without
\* prerequisites given to that expert
OneExpertOneSubtask ==
  /\ Cardinality(experts) = 1
  /\ Len(subtasks) = 1
  /\ subtasks[1].dependencies = <<>>
  /\ subtasks[1].expertId \in experts

\* C29: once a reply that cannot be parsed into an analysis has come back from
\* the planner, the plan execute works on is one generic expert and one
\* subtask without prerequisites given to that expert, the description of
\* the subtask is the text of the task execute was called with, and execute
\* has not rejected on the analysis.
C29_FallbackAssignsTask ==
  reply \in UnparsableReplies =>
    /\ OneExpertOneSubtask
    /\ "description" \in DOMAIN subtasks[1] /\ subtasks[1].description = OrchTask
    /\ error # "analyze"

\* the same, the description being the text of the planner's reply
FallbackAssignsReply ==
  reply \in UnparsableReplies =>
    /\ OneExpertOneSubtask
    /\ "description" \in DOMAIN subtasks[1] /\ subtasks[1].description = reply.text
    /\ error # "analyze"

\* execute has returned a result worked out on the fallback plan
FallbackPlanExecuted ==
  /\ reply \in UnparsableReplies /\ result.success
  /\ Len(result.outputs) = 1

\* the outputs of the subtasks among the outputs gathered so far
ProducedBySubtasks == SubtaskOutputs(outputs)

\* C30: in every state of a call, a review call has been made only if the
\* analysis asked for a review and the subtasks produced an output, and then
\* it is one call, of a review expert of the balanced tier that was given
\* all the outputs of the subtasks; while it is in flight no subtask call is
\* in flight and no summary call has been made; once the summary call is
\* made the review call has been made exactly when the analysis asked for a
\* review and there was an output, and the outputs are those of the
\* subtasks followed by the one of the reviewer, or those of the subtasks
\* alone when no review call was made.
C30_ReviewPass ==
  /\ reviewCalls \in {0, 1}
  /\ reviewCalls = 1 =>
       /\ needsReview /\ Len(ProducedBySubtasks) > 0
       /\ reviewer = [tier |-> "balanced", given |-> ProducedBySubtasks]
  /\ reviewCalls = 0 => reviewer = NoReviewer /\ ProducedBySubtasks = outputs
  /\ pc = "review" => InFlight = {} /\ summaryCalls = 0 /\ outputs = ProducedBySubtasks
  /\ summaryCalls > 0 =>
       /\ reviewCalls = (IF needsReview /\ Len(ProducedBySubtasks) > 0 THEN 1 ELSE 0)
       /\ outputs = (IF reviewCalls = 1
                     THEN Append(ProducedBySubtasks, [expertId |-> "reviewer", task |-> 0])
                     ELSE ProducedBySubtasks)
  /\ pc = "done" => result.outputs = outputs

\* execute has returned the outputs of two subtasks followed by the review
C30_Witness ==
  /\ pc = "done" /\ result.success /\ reviewCalls = 1
  /\ Len(result.outputs) = 3
  /\ result.outputs[3].expertId = "reviewer"
  /\ Len(reviewer.given) = 2

\* execute has returned without a review although the analysis asked for one:
\* no subtask produced an output
NoReviewOfNothing ==
  /\ pc = "done" /\ needsReview /\ reviewCalls = 0
  /\ result.outputs = <<>>

(***************************************************************************)
(* Properties of the progress notifications and of the execution policies. *)
(***************************************************************************)
\* the places of the notifications of a kind among those delivered
Notified(kind) == {i \in DOMAIN progress : progress[i].kind = kind}

\* every notification of kind a was delivered before every one of kind b
AllBefore(a, b) == \A i \in Notified(a), j \in Notified(b) : i < j

\* C31: when execute has returned a result worked out by the team, the
\* notifications delivered are in milestone order: the analysis done, then
\* the experts created, then the subtask starts; the end of each subtask
\* after its own start; the review start after the end of every subtask;
\* the summarize after the review start; the completion last; the
\* percentages passed never decrease and the last notification carries 100.
C31_ProgressInMilestoneOrder ==
  (pc = "done" /\ result.success /\ analyzeCalls > 0) =>
    /\ Cardinality(Notified("analysisDone")) = 1
    /\ Notified("expertCreated") # {}
    /\ AllBefore("analysisDone", "expertCreated")
    /\ AllBefore("expertCreated", "subtaskStart")
    /\ \A i \in Notified("subtaskDone") :
         \E j \in Notified("subtaskStart") : j < i /\ progress[j].task = progress[i].task
    /\ AllBefore("subtaskStart", "reviewStart") /\ AllBefore("subtaskDone", "reviewStart")
    /\ AllBefore("subtaskDone", "summarize") /\ AllBefore("reviewStart", "summarize")
    /\ Cardinality(Notified("summarize")) = 1
    /\ Notified("complete") = {Len(progress)}
    /\ AllBefore("summarize", "complete")
    /\ \A i, j \in DOMAIN progress :
         (i < j /\ progress[i].pct # -1 /\ progress[j].pct # -1) =>
           progress[i].pct <= progress[j].pct
    /\ progress[Len(progress)].pct = 100

\* a reviewed run of two subtasks, the second started after the end of the
\* first, has returned
C31_Witness ==
  /\ pc = "done" /\ result.success
  /\ Cardinality(Notified("subtaskDone")) = 2
  /\ Cardinality(Notified("reviewStart")) = 1
  /\ \E i \in Notified("subtaskDone"), j \in Notified("subtaskStart") : i < j

\* C32: under the parallel workflow every subtask whose expert exists has
\* been dispatched, once, at a time when no call of the batch had completed,
\* whether or not it declares prerequisites; a subtask whose expert is
\* missing is not dispatched.
C32_ParallelDispatchesAllAtOnce ==
  (workflow = "parallel" /\ pc \notin {"idle", "analyze"}) =>
    \A k \in Positions :
      IF subtasks[k].expertId \in experts
      THEN dispatched[k] = 1 /\ startedAfter[k] = {}
      ELSE dispatched[k] = 0

\* under the parallel workflow a subtask is in flight together with one of
\* its declared prerequisites
C32_Witness ==
  /\ workflow = "parallel"
  /\ \E k, j \in Positions :
       /\ subtasks[j].id \in DepIds(k)
       /\ calls[k] = "inflight" /\ calls[j] = "inflight"

\* no subtask of the analysis depends on itself, directly or not
Acyclic == \A k \in Positions : ~OnCycle(k)

\* the place of subtask k in the order executeSequential walks
PlaceOf(k) == CHOOSE i \in DOMAIN sortedTasks : sortedTasks[i] = k

\* executeSequential has sorted the subtasks of an acyclic analysis: the
\* order holds every subtask once and every prerequisite comes before its
\* dependents
SortedTopologically ==
  /\ sortedTasks = TopologicalSort(subtasks)
  /\ Len(sortedTasks) = Len(subtasks)
  /\ \A k \in Positions : \E i \in DOMAIN sortedTasks : sortedTasks[i] = k
  /\ \A k \in Positions : \A a \in Prereqs(k) : PlaceOf(a) < PlaceOf(k)

\* C33 as stated: the order of the sequential policy is a topological order
\* in which any two subtasks that no dependency path connects keep their
\* declaration order.
C33_TiesInDeclarationOrder ==
  (workflow = "sequential" /\ Acyclic /\ pc \notin {"idle", "analyze"}) =>
    /\ SortedTopologically
    /\ \A a, b \in Positions :
         (a < b /\ a \notin Ancestors(b) /\ b \notin Ancestors(a)) => PlaceOf(a) < PlaceOf(b)

\* C33 amended: the order of the sequential policy is the topological order
\* of the depth-first visit: every prerequisite comes before its
\* dependents, and a subtask comes before one declared earlier only when it
\* is a prerequisite, directly or not, of that subtask or of a subtask
\* declared before it.
C33_DepthFirstOrder ==
  (workflow = "sequential" /\ Acyclic /\ pc \notin {"idle", "analyze"}) =>
    /\ SortedTopologically
    /\ \A a, b \in Positions :
         (a < b /\ PlaceOf(b) < PlaceOf(a)) => \E r \in 1..a : b \in Ancestors(r)

\* a sequential order in which a subtask comes after a subtask declared
\* later that it has no dependency path to
C33_Witness ==
  /\ workflow = "sequential" /\ Acyclic /\ pc \notin {"idle", "analyze"}
  /\ \E a, b \in Positions :
       /\ a < b /\ a \notin Ancestors(b) /\ b \notin Ancestors(a)
       /\ PlaceOf(b) < PlaceOf(a)

(***************************************************************************)
(* Further properties of the TaskCache.                                    *)
(***************************************************************************)
\* the entries of other keys that a step removes from the cache
RemovedOthers(key) ==
  {e \in Range(cache.entries) : e.key # key /\ KeyIndex(cache'.entries, e.key) = 0}

\* C34: a set that overwrites the entry of a key the cache holds, or whose
\* new entry still fits in the capacity, removes no entry of another key.
C34_SetEvictsOnlyOverCapacity ==
  [][(lastOp'.kind = "set" /\ ops' = ops + 1 /\ cache.enabled) =>
       LET key == OpKey(lastOp')
           overwrites == KeyIndex(cache.entries, key) # 0
       IN  (overwrites \/ Len(cache.entries) + 1 <= cache.maxSize) =>
             RemovedOthers(key) = {}]_vars

\* the same for the sets of a key the cache does not hold
NewKeyEvictsOnlyOverCapacity ==
  [][(lastOp'.kind = "set" /\ ops' = ops + 1 /\ cache.enabled) =>
       LET key == OpKey(lastOp')
       IN  (KeyIndex(cache.entries, key) = 0 /\ Len(cache.entries) + 1 <= cache.maxSize) =>
             RemovedOthers(key) = {}]_vars

(***************************************************************************)
(* Further properties of the ResumableTaskManager.                         *)
(***************************************************************************)
\* the sequence p is the beginning of the sequence q
IsPrefix(p, q) == Len(p) <= Len(q) /\ SubSeq(q, 1, Len(p)) = p

\* C35: whatever the order in which the updateSubtask calls of a batch are
\* made, each of them, being one read-modify-write that nothing interrupts,
\* keeps what the calls before it persisted: the states of the other
\* subtasks and the outputs accumulated so far are still in the record, with
\* the status and the output it was passed.
C35_NoLostUpdate ==
  [][(/\ ledgerOp'.kind = "updateSubtask" /\ ops' = ops + 1 /\ now' = now
      /\ LedgerGet(files, ledgerOp'.id) # NullTask
      /\ ledgerOp'.sub.sid \in DOMAIN LedgerGet(files, ledgerOp'.id).subtaskStates) =>
       LET before == LedgerGet(files, ledgerOp'.id)
           after == LedgerGet(files', ledgerOp'.id)
           sid == ledgerOp'.sub.sid
           update == ledgerOp'.sub.update
       IN  /\ after # NullTask
           /\ DOMAIN after.subtaskStates = DOMAIN before.subtaskStates
           /\ \A other \in DOMAIN before.subtaskStates \ {sid} :
                after.subtaskStates[other] = before.subtaskStates[other]
           /\ IsPrefix(before.completedOutputs, after.completedOutputs)
           /\ "status" \in DOMAIN update => after.subtaskStates[sid].status = update.status
           /\ "output" \in DOMAIN update =>
                /\ Len(after.completedOutputs) = Len(before.completedOutputs) + 1
                /\ after.completedOutputs[Len(after.completedOutputs)] = update.output
           /\ \A other \in TaskIds \ {ledgerOp'.id} : files'[other] = files[other]]_vars

\* the two subtasks of a record were completed in the order opposite to their
\* declaration, each with an output: the record holds both statuses and both
\* outputs
C35_Witness ==
  /\ ledgerOp.kind = "updateSubtask" /\ ledgerOp.value # NullTask
  /\ ledgerOp.sub.sid = "A"
  /\ DOMAIN ledgerOp.value.subtaskStates = {"A", "B"}
  /\ \A sid \in {"A", "B"} : ledgerOp.value.subtaskStates[sid].status = "completed"
  /\ Len(ledgerOp.value.completedOutputs) = 2
  /\ LedgerGet(files, ledgerOp.id) = ledgerOp.value

\* every subtask of the resumed record is completed
AllCompleted ==
  LET task == LedgerGet(files, ResumedId)
  IN  task # NullTask /\ \A sid \in DOMAIN task.subtaskStates :
                           task.subtaskStates[sid].status = "completed"

\* a subtask of the resumed record is running and no runner is executing it
LeftRunning ==
  LET task == LedgerGet(files, ResumedId)
  IN  task # NullTask /\ \E sid \in DOMAIN task.subtaskStates :
                           task.subtaskStates[sid].status = "running" /\ ~Executing(sid)

\* what getPendingSubtasks returns is exactly the subtasks whose persisted
\* status is pending
PendingAreThePending ==
  LET task == LedgerGet(files, ResumedId)
  IN  Range(GetPendingSubtasks(task)) =
        {task.subtasks[k].id : k \in {j \in DOMAIN task.subtasks :
                                         task.subtaskStates[task.subtasks[j].id].status = "pending"}}

\* C36: a runner that keeps executing the subtasks getPendingSubtasks returns
\* and canExecuteSubtask accepts, stopped and restarted at any point, brings
\* every subtask of an acyclic plan to the completed status in the end, and
\* getPendingSubtasks returns exactly the subtasks whose status is pending.
C36_ResumedRunCompletes == []PendingAreThePending /\ <>AllCompleted

\* the same unless the runner was stopped while it executed a subtask
CompletesUnlessLeftRunning == []PendingAreThePending /\ <>(AllCompleted \/ LeftRunning)

\* a subtask was left running by a stopped runner and the other one has been
\* completed since
LeftRunningForGood ==
  /\ LeftRunning
  /\ \E sid \in {"A", "B"} :
       LedgerGet(files, ResumedId).subtaskStates[sid].status = "completed"

\* the subtasks of a record whose state carries an output
WithOutput(task) ==
  {sid \in DOMAIN task.subtaskStates : Field(task.subtaskStates[sid], "output") # Undefined}

\* C37: in every persisted record the accumulated outputs are at most as many
\* as the subtasks whose state carries an output, also when one subtask is
\* updated more than once.
C37_OneOutputPerSubtask ==
  \A id \in TaskIds :
    LET task == LedgerGet(files, id)
    IN  task # NullTask => Len(task.completedOutputs) <= Cardinality(WithOutput(task))

\* the accumulated outputs are as many as the updates that carried an output:
\* an update without one leaves them alone, an update with one adds it
OneOutputPerUpdate ==
  [][(ledgerOp'.kind = "updateSubtask" /\ ops' = ops + 1 /\ now' = now
      /\ ledgerOp'.value # NullTask)
     => LET before == LedgerGet(files, ledgerOp'.id)
            after == LedgerGet(files', ledgerOp'.id)
        IN  after.completedOutputs =
              IF Field(ledgerOp'.sub.update, "output") # Undefined
              THEN Append(before.completedOutputs, ledgerOp'.sub.update.output)
              ELSE before.completedOutputs]_vars

(***************************************************************************)
(* Further properties of execute.                                          *)
(***************************************************************************)
\* C38: execute stores a result in the cache only when the summary call has
\* fulfilled: any other step that changes the cache is the cache.get at the
\* entry of execute (a hit counted, an expired entry dropped); a step on
\* which execute fails leaves the cache as it was, with nothing to return for
\* the task; and the next execute after a failed one calls the planner again.
C38_CachedOnlyAfterSummary ==
  [][/\ cache' # cache =>
          \/ (pc = "summarize" /\ pc' = "done"
              /\ cache' = CacheSet(cache, OrchKey, result'.summary, now))
          \/ (run' = run + 1 /\ cache' = CachedResult.cache)
     /\ (pc # "aborted" /\ pc' = "aborted") =>
          /\ cache' = cache
          /\ CacheGet(cache', OrchKey, now').value \in {Null, ""}
     /\ (pc = "aborted" /\ run' = run + 1) =>
          /\ pc' = "analyze"
          /\ analyzeCalls' = analyzeCalls + 1]_vars

\* the first execute has failed and the second one, at once, is calling the
\* planner again
C38_Witness ==
  /\ run = 2 /\ pc = "analyze" /\ analyzeCalls = 2
  /\ cache.enabled /\ cache.entries = <<>> /\ now = 0

\* the array handed to adapter.chat by the call of the subtask at position k
Transcript(k) == conversationHistory.arrays[k]

\* the array the field conversationHistory of the expert refers to
WorkerTranscript == conversationHistory.arrays[conversationHistory.current]

\* the array of every call in flight holds the two messages of its own
\* subtask and nothing else
InFlightUntouched == \A k \in InFlight : Transcript(k) = OwnMessages(k)

\* the expert's transcript is the messages of one subtask and its reply
OneSubtaskAndReply ==
  \E j \in DOMAIN calls :
    WorkerTranscript = Append(OwnMessages(j), [role |-> "assistant", task |-> j])

\* C39: the transcript sent for each call of a worker holds only the system
\* and user message of its own subtask as long as the call is in flight, and
\* once the calls of the worker have all fulfilled its transcript holds the
\* messages of exactly one subtask followed by the reply to that subtask,
\* also when two subtasks of one batch are assigned to the worker.
C39_TranscriptsKeptApart ==
  /\ InFlightUntouched
  /\ (InFlight = {} /\ CompletedCalls(Cur) # {}
      /\ \A k \in DOMAIN calls : calls[k] \in {"ok", "none"}) => OneSubtaskAndReply

\* the same for the calls made one after the other by the sequential workflow
SequentialTranscriptsKeptApart == workflow = "sequential" => C39_TranscriptsKeptApart

\* every array handed to adapter.chat begins with the two messages of its
\* own subtask, and holds nothing else at the time of the call
SentTranscriptIsOwn ==
  [][\A k \in DOMAIN calls' :
       (k \in DOMAIN calls /\ calls[k] # "inflight" /\ calls'[k] = "inflight"
        /\ run' = run)
         => conversationHistory'.arrays[k] = OwnMessages(k)]_vars

\* two calls of one batch have fulfilled, the one dispatched first before the
\* other: its reply is in the array of the other
RepliesMixed ==
  /\ pc = "batch" /\ calls = <<"ok", "inflight">>
  /\ Transcript(2) = Append(OwnMessages(2), [role |-> "assistant", task |-> 1])

\* the messages of list that were published by another execute call than
\* the current one
Foreign(list) == {i \in DOMAIN list : list[i].run # run}

\* C40: the conversation an execute call returns and the context handed to
\* each of its expert calls hold only messages published by that call, also
\* when an earlier call was rejected while calls of its batch were in flight.
C40_OnlyOwnMessages ==
  /\ (pc = "done" /\ result.success) => Foreign(result.conversation) = {}
  /\ \A k \in DOMAIN context : Foreign(context[k]) = {}

\* the space is emptied at the entry of a call that goes to the planner, so
\* what it holds of another call is the outputs published since by that
\* call's calls left in flight
ForeignAreLateOutputs ==
  Notified("taskType") # {} =>
    \A i \in Foreign(space) : space[i].type = "output" /\ space[i].from = ExpertId

\* the second execute call has returned a conversation that holds an output
\* of the first, which was rejected
ForeignOutputReturned ==
  /\ run = 2 /\ pc = "done" /\ result.success
  /\ \E i \in DOMAIN result.conversation :
       result.conversation[i] = [run |-> 1, from |-> ExpertId, type |-> "output"]
====
